---- MODULE Spec2Model ----
(***************************************************************************)
(* A model of the ENEX -> Markdown tools of tools/evernote_extractor:      *)
(*   ENEXParser              (enex_parser.py)                               *)
(*   AttachmentExtractor     (attachment_extractor.py)                      *)
(*   EnhancedNoteExporter    (enhanced_note_exporter.py)                    *)
(*   IndividualNoteExporter  (enex_to_individual_notes.py)                  *)
(*                                                                         *)
(* Text (titles, file names, note content, Markdown) is a sequence of      *)
(* tokens.  A token is a string standing for exactly that run of           *)
(* characters.  Three kinds of token exist:                                *)
(*   - single characters: "<", ">", "&", ".", "_", " ", "\n", ...          *)
(*   - whole well-formed tags of the note content, such as "<br/>" or      *)
(*     "<en-media hash=\"h1\"/>": one "<", a name, attributes without      *)
(*     "<" or ">", one closing ">";                                         *)
(*   - atoms without any character the rewrites look at, such as the hash  *)
(*     "#0" (eight hexadecimal digits) or the literal "attachments/".      *)
(* No letter token begins a tag name the rewrites look for, so a named tag *)
(* pattern can only match a tag token, while the generic pattern <[^>]+>   *)
(* also matches from a lone "<" character to the next ">".                 *)
(***************************************************************************)
EXTENDS Integers, Sequences, FiniteSets, TLC

VARIABLES
    doc,        \* the ENEX input: [wf |-> well-formed XML?, notes |-> <<note, ...>>]
    prog,       \* the entry point that runs
    pc,         \* its position
    err,        \* the exception that left it ("" while none)
    i,          \* number of <note> elements handled so far
    j,          \* number of <resource> elements of note i+1 handled so far
    notes,      \* parse_enex_file: the records built so far
    resources,  \* the descriptors of the current note (exporter) / attachments (extractor)
    dirs,       \* directories created
    attFiles,   \* attachments directory: file name -> bytes
    noteFiles,  \* output directory: file name -> what was written
    acc,        \* accumulators of the run (index lines, attachment_map, note_attachments)
    env,        \* the environment: the clock and the write that fails
    prev,       \* the attachments directory left by the run before this one
    fn          \* a single function under evaluation (conversion, sanitising)

runVars == <<doc, prog, pc, err, i, j, notes, resources, dirs, attFiles, noteFiles, acc, env, prev>>
vars == <<doc, prog, pc, err, i, j, notes, resources, dirs, attFiles, noteFiles, acc, env, prev, fn>>

-----------------------------------------------------------------------------
(* Bounds of the model *)

MaxNotes == 2      \* <note> elements in a document
MaxRes == 2        \* <resource> elements in a document
HashSpace == 2     \* number of distinct 8-digit MD5 prefixes (16^8 in the code)

-----------------------------------------------------------------------------
(* Sequences *)

Min(a, b) == IF a < b THEN a ELSE b

Max(a, b) == IF a < b THEN b ELSE a

Take(s, n) == SubSeq(s, 1, Min(n, Len(s)))

Drop(s, n) == SubSeq(s, n + 1, Len(s))

RECURSIVE Flatten(_)
Flatten(ss) == IF ss = <<>> THEN <<>> ELSE Head(ss) \o Flatten(Tail(ss))

Range(s) == {s[k] : k \in DOMAIN s}

SeqsUpTo(S, n) == UNION {[1..m -> S] : m \in 0..n}

\* s contains t as a contiguous subsequence
Contains(s, t) ==
    \E k \in 0..(Len(s) - Len(t)) : SubSeq(s, k + 1, k + Len(t)) = t

Count(s, c) == Cardinality({k \in DOMAIN s : s[k] = c})

-----------------------------------------------------------------------------
(* Python's str operations used on file names and titles *)

NBSP == "NBSP"                      \* U+00A0, what &nbsp; decodes to

\* str.isspace(): what str.strip() removes and \s matches
PySpace == {" ", "\n", "\r", "\t", NBSP}

\* str.replace(c, '')
RemoveChar(s, c) == SelectSeq(s, LAMBDA t : t # c)

\* str.strip()
PyStrip(text) ==
    LET K == {k \in DOMAIN text : text[k] \notin PySpace}
    IN  IF K = {} THEN <<>>
        ELSE SubSeq(text, CHOOSE k \in K : \A m \in K : k <= m,
                          CHOOSE k \in K : \A m \in K : m <= k)

\* index of the last "." of s, 0 when there is none
LastDot(s) ==
    LET D == {k \in DOMAIN s : s[k] = "."}
    IN  IF D = {} THEN 0 ELSE CHOOSE k \in D : \A m \in D : m <= k

\* str.rsplit('.', 1): one part when there is no ".", else <<stem, extension>>
RSplitDot(s) ==
    IF LastDot(s) = 0 THEN <<s>>
    ELSE <<SubSeq(s, 1, LastDot(s) - 1), SubSeq(s, LastDot(s) + 1, Len(s))>>

DigitChar == <<"0", "1", "2", "3", "4", "5", "6", "7", "8", "9">>

RECURSIVE Decimal(_)
Decimal(n) ==
    IF n < 10 THEN <<DigitChar[n + 1]>> ELSE Decimal(n \div 10) \o <<DigitChar[(n % 10) + 1]>>

-----------------------------------------------------------------------------
(* The ENEX input *)

\* A Python value that is a str or None
PyNone == [none |-> TRUE, s |-> <<>>]

PyStr(s) == [none |-> FALSE, s |-> s]

Untitled == <<"U", "n", "t", "i", "t", "l", "e", "d">>

\* decoded payloads (sequences of bytes)
Payloads == {<<0>>, <<1>>, <<0, 0>>}

(* A <resource> element.                                                   *)
(*   data  "nodata": no <data> child; "empty": <data> without text;        *)
(*         "bad": text that base64.b64decode rejects (incorrect padding);  *)
(*         "b64": text that decodes to bytes                               *)
(*   enc   the encoding attribute of <data> ("" when it has none)          *)
(*   mime  <<>> without <mime>, else <<its text>>                          *)
(*   fname the text of <file-name>; <<>> when there is no such element    *)
(*   dhash the hash attribute of <data>; <<>> when it has none             *)
Res(data, bytes, enc, mime, fname, dhash) ==
    [data |-> data, bytes |-> bytes, enc |-> enc, mime |-> mime, fname |-> fname,
     dhash |-> dhash]

(* A <note> element: hasTitle, title (<<>>: the element has no text),      *)
(* content (the text of <content>), created and updated (<<>>: no such     *)
(* element, <<PyNone>>: an element without text, else <<PyStr(text)>>),    *)
(* resources.                                                              *)
Note(hasTitle, title, content, created, updated, res) ==
    [hasTitle |-> hasTitle, title |-> title, content |-> content, created |-> created,
     updated |-> updated, resources |-> res]

-----------------------------------------------------------------------------
(* hashlib.md5(data).hexdigest()[:8]: a function of the bytes alone, with  *)
(* fewer values than there are payloads.                                   *)

HexName == <<"#0", "#1", "#2", "#3", "#4", "#5", "#6", "#7">>

RECURSIVE SumBytes(_)
SumBytes(b) == IF b = <<>> THEN 0 ELSE Head(b) + SumBytes(Tail(b))

\* a digest that also reads the clock: what C10 rules out
MD5Hex8_Salted(bytes) == HexName[((SumBytes(bytes) + Len(bytes) + env.now) % HashSpace) + 1]

MD5Hex8(bytes) == HexName[((SumBytes(bytes) + Len(bytes)) % HashSpace) + 1]

-----------------------------------------------------------------------------
(* _get_extension_from_mime *)

mime_to_ext ==
    [m \in {"image/jpeg", "image/png", "image/gif", "image/svg+xml", "image/webp",
            "application/pdf", "text/plain", "text/html", "application/msword",
            "application/vnd.openxmlformats-officedocument.wordprocessingml.document",
            "application/vnd.ms-excel",
            "application/vnd.openxmlformats-officedocument.spreadsheetml.sheet",
            "application/zip", "audio/mpeg", "video/mp4"} |->
        CASE m = "image/jpeg" -> "jpg"
          [] m = "image/png" -> "png"
          [] m = "image/gif" -> "gif"
          [] m = "image/svg+xml" -> "svg"
          [] m = "image/webp" -> "webp"
          [] m = "application/pdf" -> "pdf"
          [] m = "text/plain" -> "txt"
          [] m = "text/html" -> "html"
          [] m = "application/msword" -> "doc"
          [] m = "application/vnd.openxmlformats-officedocument.wordprocessingml.document" -> "docx"
          [] m = "application/vnd.ms-excel" -> "xls"
          [] m = "application/vnd.openxmlformats-officedocument.spreadsheetml.sheet" -> "xlsx"
          [] m = "application/zip" -> "zip"
          [] m = "audio/mpeg" -> "mp3"
          [] m = "video/mp4" -> "mp4"]

\* a lookup without the '.bin' default: what C12 rules out
_get_extension_from_mime_NoDefault(mime_type) ==
    IF mime_type \in DOMAIN mime_to_ext THEN <<".", mime_to_ext[mime_type]>>
    ELSE <<>>

_get_extension_from_mime(mime_type) ==
    IF mime_type \in DOMAIN mime_to_ext THEN <<".", mime_to_ext[mime_type]>>
    ELSE <<".", "bin">>

\* mime_type.startswith('image/')
IsImageMime(mime_type) ==
    mime_type \in {"image/jpeg", "image/png", "image/gif", "image/svg+xml", "image/webp"}

-----------------------------------------------------------------------------
(* _extract_resource: the file name under which a payload is stored *)

NameLimit == 50

StemLimit == 40

\* a cut that keeps 50 characters of the stem: what C11 rules out
CleanFilename_LongStem(filename) ==
    LET clean == PyStrip(RemoveChar(RemoveChar(filename, "\n"), "\r"))
        parts == RSplitDot(clean)
    IN  IF Len(clean) > NameLimit
        THEN IF Len(parts) = 2
             THEN Take(parts[1], NameLimit) \o <<".">> \o parts[2]
             ELSE Take(clean, NameLimit)
        ELSE clean

\* filename.replace('\n', '').replace('\r', '').strip(), then the cut to 50
CleanFilename(filename) ==
    LET clean == PyStrip(RemoveChar(RemoveChar(filename, "\n"), "\r"))
        parts == RSplitDot(clean)
    IN  IF Len(clean) > NameLimit
        THEN IF Len(parts) = 2
             THEN Take(parts[1], StemLimit) \o <<".">> \o parts[2]
             ELSE Take(clean, NameLimit)
        ELSE clean

\* a name without the hash prefix for a declared file name: what C9 rules out
ResolveFilename_NoPrefix(data_hash, mime_type, filename) ==
    IF filename = <<>>
    THEN <<data_hash>> \o _get_extension_from_mime(mime_type)
    ELSE CleanFilename(filename)

\* "Generate filename if not provided" ... "Add hash prefix to avoid conflicts"
ResolveFilename(data_hash, mime_type, filename) ==
    IF filename = <<>>
    THEN <<data_hash>> \o _get_extension_from_mime(mime_type)
    ELSE LET clean == CleanFilename(filename)
             parts == RSplitDot(clean)
         IN  IF Len(parts) = 2
             THEN <<data_hash, "_">> \o parts[1] \o <<".">> \o parts[2]
             ELSE <<data_hash, "_">> \o clean

\* an extractor that lets an undecodable payload through: what C4 rules out
Skipped_Lenient(res) ==
    \/ res.data \in {"nodata", "empty"}
    \/ res.enc # "base64"

\* the three early returns of _extract_resource
Skipped(res) ==
    \/ res.data \in {"nodata", "empty"}
    \/ res.enc # "base64"
    \/ res.data = "bad"

MimeType(res) == IF res.mime = <<>> THEN "application/octet-stream" ELSE res.mime[1]

\* a descriptor whose hash also depends on the owning note: what C8 rules out
AttachmentExtractor_extract_resource_PerNote(res, note_idx) ==
    IF Skipped(res) THEN <<>>
    ELSE LET data_hash == HexName[((SumBytes(res.bytes) + note_idx) % HashSpace) + 1]
         IN  <<[hash |-> data_hash,
                filename |-> ResolveFilename(data_hash, MimeType(res), res.fname),
                original_filename |-> res.fname,
                mime_type |-> MimeType(res),
                size |-> Len(res.bytes),
                note_index |-> note_idx]>>

(* AttachmentExtractor._extract_resource: <<>> for None, else              *)
(* <<attachment_info>>; the file is written by the action that calls it.   *)
AttachmentExtractor_extract_resource(res, note_idx) ==
    IF Skipped(res) THEN <<>>
    ELSE LET data_hash == MD5Hex8(res.bytes)
         IN  <<[hash |-> data_hash,
                filename |-> ResolveFilename(data_hash, MimeType(res), res.fname),
                original_filename |-> res.fname,
                mime_type |-> MimeType(res),
                size |-> Len(res.bytes),
                note_index |-> note_idx]>>

(* EnhancedNoteExporter._extract_resource *)
EnhancedNoteExporter_extract_resource(res, note_idx) ==
    IF Skipped(res) THEN <<>>
    ELSE LET data_hash == MD5Hex8(res.bytes)
             filename == ResolveFilename(data_hash, MimeType(res), res.fname)
         IN  <<[hash |-> data_hash,
                resource_hash |-> res.dhash,
                filename |-> filename,
                original_filename |-> res.fname,
                mime_type |-> MimeType(res),
                size |-> Len(res.bytes),
                relative_path |-> <<"attachments/">> \o filename,
                note_index |-> note_idx,
                is_image |-> IsImageMime(MimeType(res))]>>

-----------------------------------------------------------------------------
(* Tokens of note content *)

Marker == "[Attachment]"

CDataOpen == "<![CDATA["

CDataClose == "]]>"

EnMediaTags == {"<en-media hash=\"h1\"/>", "<en-media hash=\"h2\"/>", "<en-media/>"}

\* every whole-tag token of the model
Tags ==
    EnMediaTags \cup
    {"<en-note>", "</en-note>", "<br>", "<br/>", "<p>", "</p>", "<div>", "</div>",
     "<h1>", "</h1>", "<h2>", "</h2>", "<h3>", "</h3>",
     "<strong>", "</strong>", "<b>", "</b>", "<em>", "</em>", "<i>", "</i>",
     "<a href=\"u\">", "</a>", "<ul>", "</ul>", "<ol>", "</ol>", "<li>", "</li>",
     "<span>", "</span>"}

\* re.search(r'hash="([^"]+)"', media_tag): <<>> for no match, else <<group 1>>
HashOfMedia(tag) ==
    CASE tag = "<en-media hash=\"h1\"/>" -> <<"h1">>
      [] tag = "<en-media hash=\"h2\"/>" -> <<"h2">>
      [] OTHER -> <<>>

\* the tokens that end a run of [^>]: each is, or ends with, a ">"
HasGT == Tags \cup {">", CDataClose}

\* the token begins with a "<" that its own text does not close
OpensLT(t) == t \in {"<", CDataOpen}

-----------------------------------------------------------------------------
(* re.sub over token sequences: matches are found from left to right, do   *)
(* not overlap, and the replacement is not scanned again.                  *)

\* index of the first k > from with text[k] \in S; 0 when there is none
FindFrom(text, from, S) ==
    LET K == {k \in DOMAIN text : k > from /\ text[k] \in S}
    IN  IF K = {} THEN 0 ELSE CHOOSE k \in K : \A m \in K : k <= m

\* re.sub(r'<!\[CDATA\[(.*?)\]\]>', r'\1', text, flags=re.DOTALL)
RECURSIVE StripCData(_)
StripCData(text) ==
    IF text = <<>> THEN <<>>
    ELSE LET close == FindFrom(text, 1, {CDataClose})
         IN  IF Head(text) = CDataOpen /\ close # 0
             THEN SubSeq(text, 2, close - 1) \o StripCData(Drop(text, close))
             ELSE <<Head(text)>> \o StripCData(Tail(text))

\* re.sub of a pattern that matches exactly the tag tokens of DOMAIN f, by f[tag]
RECURSIVE SubTags(_, _)
SubTags(text, f) ==
    IF text = <<>> THEN <<>>
    ELSE (IF Head(text) \in DOMAIN f THEN f[Head(text)] ELSE <<Head(text)>>)
         \o SubTags(Tail(text), f)

\* re.sub(r'<X[^>]*>(.*?)</X>', pre \1 post, text, flags=re.DOTALL)
RECURSIVE SubWrap(_, _, _, _, _)
SubWrap(text, Opens, close, pre, post) ==
    IF text = <<>> THEN <<>>
    ELSE LET m == FindFrom(text, 1, {close})
         IN  IF Head(text) \in Opens /\ m # 0
             THEN pre \o SubSeq(text, 2, m - 1) \o post
                  \o SubWrap(Drop(text, m), Opens, close, pre, post)
             ELSE <<Head(text)>> \o SubWrap(Tail(text), Opens, close, pre, post)

\* re.sub(r'<a[^>]+href="([^"]+)"[^>]*>(.*?)</a>', r'[\2](\1)', text, flags=re.DOTALL)
RECURSIVE SubLinks(_)
SubLinks(text) ==
    IF text = <<>> THEN <<>>
    ELSE LET m == FindFrom(text, 1, {"</a>"})
         IN  IF Head(text) = "<a href=\"u\">" /\ m # 0
             THEN <<"[">> \o SubSeq(text, 2, m - 1) \o <<"](", "u", ")">>
                  \o SubLinks(Drop(text, m))
             ELSE <<Head(text)>> \o SubLinks(Tail(text))

(* re.sub(r'<[^>]+>', '', text): a tag token goes; a "<" that is not a tag *)
(* token takes everything up to the next ">" with it, when at least one    *)
(* character lies between them.                                            *)
RECURSIVE StripTags(_)
StripTags(text) ==
    IF text = <<>> THEN <<>>
    ELSE LET m == FindFrom(text, 1, HasGT)
         IN  IF Head(text) \in Tags THEN StripTags(Tail(text))
             ELSE IF OpensLT(Head(text)) /\ m # 0
                     /\ ~(Head(text) = "<" /\ m = 2 /\ text[2] = ">")
                  THEN StripTags(Drop(text, m))
             ELSE <<Head(text)>> \o StripTags(Tail(text))

\* length of the run of tokens of S at the head of text
RECURSIVE RunLen(_, _)
RunLen(text, S) ==
    IF text # <<>> /\ Head(text) \in S THEN 1 + RunLen(Tail(text), S) ELSE 0

\* re.sub(r'\n{atLeast,}', keep, text)
RECURSIVE CollapseNewlines(_, _, _)
CollapseNewlines(text, atLeast, keep) ==
    IF text = <<>> THEN <<>>
    ELSE LET n == RunLen(text, {"\n"})
         IN  IF n >= atLeast THEN keep \o CollapseNewlines(Drop(text, n), atLeast, keep)
             ELSE IF n >= 1
                  THEN Take(text, n) \o CollapseNewlines(Drop(text, n), atLeast, keep)
             ELSE <<Head(text)>> \o CollapseNewlines(Tail(text), atLeast, keep)

\* re.sub(r'[ \t]+\n', '\n', text)
RECURSIVE StripLineEnds(_)
StripLineEnds(text) ==
    IF text = <<>> THEN <<>>
    ELSE LET n == RunLen(text, {" ", "\t"})
         IN  IF n >= 1 /\ n < Len(text) /\ text[n + 1] = "\n"
             THEN <<"\n">> \o StripLineEnds(Drop(text, n + 1))
             ELSE IF n >= 1 THEN Take(text, n) \o StripLineEnds(Drop(text, n))
             ELSE <<Head(text)>> \o StripLineEnds(Tail(text))

\* html.unescape: every entity token becomes its character
Unescape1(t) ==
    CASE t = "&lt;" -> "<"
      [] t = "&gt;" -> ">"
      [] t = "&amp;" -> "&"
      [] t = "&nbsp;" -> NBSP
      [] t = "&#10;" -> "\n"
      [] t = "&#32;" -> " "
      [] OTHER -> t

Unescape(text) == [k \in DOMAIN text |-> Unescape1(text[k])]

-----------------------------------------------------------------------------
(* EnhancedNoteExporter._html_to_markdown_with_images *)

NL2 == <<"\n", "\n">>

\* str(x) inside an f-string, for x a str or None
Fmt(original_filename) ==
    IF original_filename = <<>> THEN <<"None">> ELSE original_filename

(* "Create resource hash lookup": declared hash -> descriptor; a later     *)
(* resource with the same declared hash replaces an earlier one.           *)
ResourceLookup(descs) ==
    LET H == {descs[k].resource_hash[1] : k \in {m \in DOMAIN descs : descs[m].resource_hash # <<>>}}
    IN  [h \in H |->
            descs[CHOOSE k \in DOMAIN descs :
                    /\ descs[k].resource_hash = <<h>>
                    /\ \A m \in DOMAIN descs : descs[m].resource_hash = <<h>> => m <= k]]

\* a replacement that drops a placeholder it cannot resolve: what C3 rules out
replace_media_Drop(media_tag, resource_lookup) ==
    LET hash_match == HashOfMedia(media_tag)
    IN  IF hash_match # <<>> /\ hash_match[1] \in DOMAIN resource_lookup
        THEN LET resource == resource_lookup[hash_match[1]]
             IN  NL2 \o <<"![">> \o Fmt(resource.original_filename) \o <<"](">>
                 \o resource.relative_path \o <<")">> \o NL2
        ELSE <<>>

\* the key original_filename is always present, so .get never uses its default
replace_media(media_tag, resource_lookup) ==
    LET hash_match == HashOfMedia(media_tag)
    IN  IF hash_match # <<>> /\ hash_match[1] \in DOMAIN resource_lookup
        THEN LET resource == resource_lookup[hash_match[1]]
             IN  IF resource.is_image
                 THEN NL2 \o <<"![">> \o Fmt(resource.original_filename) \o <<"](">>
                      \o resource.relative_path \o <<")">> \o NL2
                 ELSE NL2 \o <<"[", "PAPERCLIP", " ">> \o Fmt(resource.original_filename)
                      \o <<"](">> \o resource.relative_path \o <<")">> \o NL2
        ELSE NL2 \o <<Marker>> \o NL2

\* the rewrites up to and including the <en-media> one
MediaStage(html_content, descs) ==
    LET lookup == ResourceLookup(descs)
    IN  SubTags(StripCData(html_content),
                [t \in EnMediaTags |-> replace_media(t, lookup)])

\* "Convert other ENML/HTML tags" ... "Handle lists"
MarkupStage(text) ==
    LET t1 == SubTags(text, [t \in {"<en-note>", "</en-note>"} |-> <<>>])
        t2 == SubTags(t1, [t \in {"<br>", "<br/>"} |-> <<"\n">>])
        t3 == SubTags(t2, [t \in {"<p>"} |-> NL2])
        t4 == SubTags(t3, [t \in {"</p>"} |-> NL2])
        t5 == SubTags(t4, [t \in {"<div>"} |-> NL2])
        t6 == SubTags(t5, [t \in {"</div>"} |-> NL2])
        h1 == SubWrap(t6, {"<h1>"}, "</h1>", NL2 \o <<"#", " ">>, NL2)
        h2 == SubWrap(h1, {"<h2>"}, "</h2>", NL2 \o <<"#", "#", " ">>, NL2)
        h3 == SubWrap(h2, {"<h3>"}, "</h3>", NL2 \o <<"#", "#", "#", " ">>, NL2)
        f1 == SubWrap(h3, {"<strong>"}, "</strong>", <<"*", "*">>, <<"*", "*">>)
        f2 == SubWrap(f1, {"<b>", "<br>", "<br/>"}, "</b>", <<"*", "*">>, <<"*", "*">>)
        f3 == SubWrap(f2, {"<em>"}, "</em>", <<"*">>, <<"*">>)
        f4 == SubWrap(f3, {"<i>"}, "</i>", <<"*">>, <<"*">>)
        a1 == SubLinks(f4)
        l1 == SubTags(a1, [t \in {"<ul>"} |-> <<"\n">>])
        l2 == SubTags(l1, [t \in {"</ul>"} |-> <<"\n">>])
        l3 == SubTags(l2, [t \in {"<ol>"} |-> <<"\n">>])
        l4 == SubTags(l3, [t \in {"</ol>"} |-> <<"\n">>])
        l5 == SubTags(l4, [t \in {"<li>"} |-> <<"\n", "-", " ">>])
    IN  SubTags(l5, [t \in {"</li>"} |-> <<>>])

\* "Remove remaining HTML tags" ... return text.strip()
CleanupStage(text) ==
    PyStrip(Unescape(StripLineEnds(CollapseNewlines(StripTags(text), 4, <<"\n", "\n", "\n">>))))

_html_to_markdown_with_images(html_content, descs) ==
    IF html_content = <<>> THEN <<>>
    ELSE CleanupStage(MarkupStage(MediaStage(html_content, descs)))

-----------------------------------------------------------------------------
(* ENEXParser *)

\* _html_to_text
_html_to_text(html_content) ==
    IF html_content = <<>> THEN <<>>
    ELSE LET t1 == StripCData(html_content)
             t2 == SubTags(t1, [t \in {"<en-note>", "</en-note>"} |-> <<>>])
             t3 == SubTags(t2, [t \in EnMediaTags |-> <<Marker>>])
             t4 == Unescape(t3)
             t5 == SubTags(t4, [t \in {"<br>", "<br/>"} |-> <<"\n">>])
             t6 == SubTags(t5, [t \in {"</p>"} |-> NL2])
             t7 == StripTags(t6)
         IN  PyStrip(CollapseNewlines(t7, 3, NL2))

(* _parse_date (the same in ENEXParser and EnhancedNoteExporter):          *)
(* datetime.strptime(date_str[:15], '%Y%m%dT%H%M%S').isoformat(), and the  *)
(* argument itself when anything is raised.  strptime matches the regular  *)
(* expression it builds from the format, in which the year has four        *)
(* digits, every other field has two digits or one, and letters match in   *)
(* either case; the whole string must be matched.                          *)

IsDigit(c) == \E n \in 1..10 : DigitChar[n] = c

DigitVal(c) == (CHOOSE n \in 1..10 : DigitChar[n] = c) - 1

RECURSIVE Num(_)
Num(s) == IF s = <<>> THEN 0 ELSE 10 * Num(SubSeq(s, 1, Len(s) - 1)) + DigitVal(s[Len(s)])

AllDigits(s) == \A k \in DOMAIN s : IsDigit(s[k])

\* the alternatives of the directives %m %d %H %M %S in _strptime.TimeRE
FieldMatches(directive, f) ==
    IF directive = "d" /\ Len(f) = 2 /\ f[1] = " "
    THEN IsDigit(f[2]) /\ DigitVal(f[2]) >= 1
    ELSE /\ AllDigits(f)
         /\ CASE directive = "m" -> Num(f) >= 1 /\ Num(f) <= 12
              [] directive = "d" -> Num(f) >= 1 /\ Num(f) <= 31
              [] directive = "H" -> Num(f) <= 23
              [] directive = "M" -> Num(f) <= 59
              [] directive = "S" -> Num(f) <= 61

Directives == <<"m", "d", "H", "M", "S">>

\* where field k of a match with field lengths w starts in the string
FieldStart(w, k) ==
    4 + (IF k > 1 THEN w[1] ELSE 0) + (IF k > 2 THEN w[2] + 1 ELSE 0)
      + (IF k > 3 THEN w[3] ELSE 0) + (IF k > 4 THEN w[4] ELSE 0) + 1

Field(s, w, k) == SubSeq(s, FieldStart(w, k), FieldStart(w, k) + w[k] - 1)

\* the regular expression matches all of s with fields of the widths w
MatchesWith(s, w) ==
    /\ Len(s) = 4 + w[1] + w[2] + 1 + w[3] + w[4] + w[5]
    /\ AllDigits(SubSeq(s, 1, 4))
    /\ s[4 + w[1] + w[2] + 1] \in {"T", "t"}
    /\ \A k \in 1..5 : FieldMatches(Directives[k], Field(s, w, k))

\* the alternative of two characters is tried before that of one
TriedBefore(a, b) ==
    \E k \in 1..5 : a[k] > b[k] /\ \A m \in 1..(k - 1) : a[m] = b[m]

Widths(s) == {w \in [1..5 -> {1, 2}] : MatchesWith(s, w)}

LeapYear(y) == (y % 4 = 0 /\ y % 100 # 0) \/ y % 400 = 0

DaysIn(y, m) ==
    IF m = 2 THEN (IF LeapYear(y) THEN 29 ELSE 28)
    ELSE IF m \in {4, 6, 9, 11} THEN 30 ELSE 31

Pad2(n) == IF n < 10 THEN <<"0">> \o Decimal(n) ELSE Decimal(n)

\* strptime: <<>> when it raises ValueError, else <<the fields of the datetime>>
strptime(s) ==
    IF Widths(s) = {} THEN <<>>
    ELSE LET w == CHOOSE a \in Widths(s) : \A b \in Widths(s) : ~TriedBefore(b, a)
             val(k) == IF Field(s, w, k)[1] = " " THEN DigitVal(Field(s, w, k)[2])
                       ELSE Num(Field(s, w, k))
             y == Num(SubSeq(s, 1, 4))
         IN  IF y >= 1 /\ val(2) <= DaysIn(y, val(1)) /\ val(5) <= 59
             THEN <<[year |-> y, month |-> val(1), day |-> val(2), hour |-> val(3),
                     minute |-> val(4), second |-> val(5)]>>
             ELSE <<>>

\* datetime.isoformat() without microseconds
isoformat(dt) ==
    [k \in 1..(4 - Len(Decimal(dt.year))) |-> "0"] \o Decimal(dt.year) \o <<"-">>
    \o Pad2(dt.month) \o <<"-">> \o Pad2(dt.day) \o <<"T">> \o Pad2(dt.hour) \o <<":">>
    \o Pad2(dt.minute) \o <<":">> \o Pad2(dt.second)

DateSlice == 15

\* a parse of the whole string instead of its first 15 characters: what C14 rules out
_parse_date_Whole(date_str) ==
    IF date_str.none THEN date_str
    ELSE LET dt == strptime(date_str.s)
         IN  IF dt = <<>> THEN date_str ELSE PyStr(isoformat(dt[1]))

\* date_str is a str or None; None[:15] raises TypeError, which is caught too
_parse_date(date_str) ==
    IF date_str.none THEN date_str
    ELSE LET dt == strptime(Take(date_str.s, DateSlice))
         IN  IF dt = <<>> THEN date_str ELSE PyStr(isoformat(dt[1]))

\* base64.b64decode(data_elem.text) at line 120 raises binascii.Error
ParseResourceRaises(res) == res.data = "bad" /\ res.enc = "base64"

(* _parse_resource: the dict, each optional key as a sequence of 0 or 1    *)
(* values (its file name is the sequence of its characters).               *)
_parse_resource(res) ==
    [mime |-> res.mime,
     filename |-> res.fname,
     size |-> IF res.data = "b64" /\ res.enc = "base64" THEN <<Len(res.bytes)>> ELSE <<>>]

\* "if resource:" - a dict without any key is dropped
ParsedResources(rs) ==
    SelectSeq([k \in DOMAIN rs |-> _parse_resource(rs[k])],
              LAMBDA r : r.mime # <<>> \/ r.filename # <<>> \/ r.size # <<>>)

\* title_elem.text if title_elem is not None else 'Untitled'
TitleOf(note) ==
    IF ~note.hasTitle THEN PyStr(Untitled)
    ELSE IF note.title = <<>> THEN PyNone
    ELSE PyStr(note.title)

\* "if created_elem is not None: note['created'] = self._parse_date(created_elem.text)":
\* <<>> when the key is not set
DateOf(elem) == IF elem = <<>> THEN <<>> ELSE <<_parse_date(elem[1])>>

\* f"{value}" of a str or None
FmtValue(v) == IF v.none THEN <<"None">> ELSE v.s

\* _parse_note; elem is the position of the <note> element in the document
_parse_note(note, elem) ==
    [elem |-> elem,
     title |-> TitleOf(note),
     created |-> DateOf(note.created),
     modified |-> DateOf(note.updated),
     content_html |-> note.content,
     content_text |-> _html_to_text(note.content),
     resources |-> ParsedResources(note.resources)]

ParseNoteRaises(note) ==
    \E k \in DOMAIN note.resources : ParseResourceRaises(note.resources[k])

-----------------------------------------------------------------------------
(* sanitize_filename (the same in both exporters) and the note file name *)

BadChars == {"<", ">", ":", "\"", "/", "\\", "|", "?", "*"}

MaxTitleLength == 100

\* re.sub(r'\s+', ' ', s): the first character of each run of whitespace
\* becomes a space and the others go
CollapseSpaces(s) ==
    LET at == [k \in DOMAIN s |-> <<k, s[k]>>]
        kept == SelectSeq(at, LAMBDA p : p[2] \notin PySpace \/ p[1] = 1
                                         \/ s[Max(p[1] - 1, 1)] \notin PySpace)
    IN  [k \in DOMAIN kept |-> IF kept[k][2] \in PySpace THEN " " ELSE kept[k][2]]

\* a sanitizer that never cuts: what the bound of C7 rules out
sanitize_filename_Uncut(title) ==
    LET replaced == [k \in DOMAIN title |-> IF title[k] \in BadChars THEN "_" ELSE title[k]]
        safe_title == PyStrip(CollapseSpaces(replaced))
    IN  IF safe_title = <<>> THEN Untitled ELSE safe_title

\* a cut that is not stripped again: what C30 rules out
sanitize_filename_CutUnstripped(title) ==
    LET replaced == [k \in DOMAIN title |-> IF title[k] \in BadChars THEN "_" ELSE title[k]]
        safe_title == PyStrip(CollapseSpaces(replaced))
        cut == IF Len(safe_title) > MaxTitleLength
               THEN Take(safe_title, MaxTitleLength)
               ELSE safe_title
    IN  IF cut = <<>> THEN Untitled ELSE cut

sanitize_filename(title) ==
    LET replaced == [k \in DOMAIN title |-> IF title[k] \in BadChars THEN "_" ELSE title[k]]
        safe_title == PyStrip(CollapseSpaces(replaced))
        cut == IF Len(safe_title) > MaxTitleLength
               THEN PyStrip(Take(safe_title, MaxTitleLength))
               ELSE safe_title
    IN  IF cut = <<>> THEN Untitled ELSE cut

\* f"{n:04d}"
Pad4(n) == [k \in 1..(4 - Len(Decimal(n))) |-> "0"] \o Decimal(n)

\* file names made of the title alone: what C29 rules out
NoteFilename_Unnumbered(note_idx, title) ==
    sanitize_filename(title) \o <<".", "m", "d">>

\* file names numbered from 0 instead of 1: what C18 rules out
NoteFilename_FromZero(note_idx, title) ==
    Pad4(note_idx - 1) \o <<"_">> \o sanitize_filename(title) \o <<".", "m", "d">>

\* f"{note_idx:04d}_{safe_title}.md"
NoteFilename(note_idx, title) ==
    Pad4(note_idx) \o <<"_">> \o sanitize_filename(title) \o <<".", "m", "d">>

-----------------------------------------------------------------------------
(* The documents each entry point is run on *)

Malformed == [wf |-> FALSE, notes |-> <<>>]

\* the ways to cut a list of len resources into n consecutive groups
Cuts(n, len) ==
    {b \in [1..(n + 1) -> 0..len] :
        /\ b[1] = 0
        /\ b[n + 1] = len
        /\ \A k \in 1..n : b[k] <= b[k + 1]}

\* well-formed documents: up to MaxNotes notes that hold up to MaxRes resources
Docs(Heads, ResFamily) ==
    UNION {UNION {{[wf |-> TRUE,
                    notes |-> [k \in 1..n |->
                        Note(hs[k][1], hs[k][2], hs[k][3], hs[k][4], hs[k][5],
                             SubSeq(rs, b[k] + 1, b[k + 1]))]]
                     : b \in Cuts(n, Len(rs)), hs \in [1..n -> Heads]}
                  : rs \in SeqsUpTo(ResFamily, MaxRes)}
           : n \in 0..MaxNotes}

\* an Evernote timestamp
Stamp ==
    PyStr(<<"2", "0", "2", "4", "0", "1", "1", "5", "T", "1", "2", "3", "4", "5", "6", "Z">>)

\* <<the note has a <title>, its text, the text of <content>, <created>, <updated>>>
PlainHeads ==
    {<<TRUE, <<"a">>, <<"x">>, <<PyNone>>, <<Stamp>>>>,
     <<TRUE, <<>>, <<"x">>, <<>>, <<>>>>,
     <<FALSE, <<>>, <<"x">>, <<>>, <<PyStr(<<"x">>)>>>>}

MediaHeads ==
    {<<TRUE, <<"a">>, <<"<en-media hash=\"h1\"/>", "x">>, <<PyNone>>, <<Stamp>>>>,
     <<TRUE, <<>>, <<"x">>, <<>>, <<>>>>,
     <<FALSE, <<>>, <<"x">>, <<>>, <<PyStr(<<"x">>)>>>>}

InvalidRes ==
    {Res("nodata", <<>>, "", <<"image/png">>, <<"x">>, <<>>),
     Res("empty", <<>>, "base64", <<"image/png">>, <<"x">>, <<"h1">>),
     Res("b64", <<0>>, "plain", <<"image/png">>, <<"x">>, <<"h1">>),
     Res("bad", <<>>, "base64", <<"image/png">>, <<"x">>, <<"h1">>)}

ParseRes ==
    {Res("b64", <<0>>, "base64", <<"image/png">>, <<"x">>, <<"h1">>),
     Res("bad", <<>>, "base64", <<"image/png">>, <<"x">>, <<"h1">>),
     Res("b64", <<0>>, "plain", <<"image/png">>, <<>>, <<>>),
     Res("nodata", <<>>, "", <<>>, <<>>, <<>>)}

\* for the exporter of parsed notes: a named resource, one that makes the
\* parser raise, and one without name or size
IndividualRes ==
    {Res("b64", <<0>>, "base64", <<"image/png">>, <<"x">>, <<"h1">>),
     Res("bad", <<>>, "base64", <<"image/png">>, <<"x">>, <<"h1">>),
     Res("b64", <<0>>, "plain", <<"image/png">>, <<>>, <<>>)}

AttachRes ==
    InvalidRes \cup
    {Res("b64", <<0>>, "base64", <<"image/png">>, <<"x">>, <<"h2">>),
     Res("b64", <<1>>, "base64", <<"image/png">>, <<"x">>, <<"h2">>),
     Res("b64", <<0, 0>>, "base64", <<"image/png">>, <<"x">>, <<"h2">>),
     Res("b64", <<0>>, "base64", <<"application/pdf">>, <<>>, <<>>),
     Res("b64", <<1>>, "base64", <<"image/png">>, <<>>, <<"h1">>)}

EnhancedRes ==
    {Res("b64", <<0>>, "base64", <<"image/png">>, <<"x">>, <<"h1">>),
     Res("b64", <<1>>, "base64", <<"application/pdf">>, <<>>, <<"h1">>),
     Res("bad", <<>>, "base64", <<"image/png">>, <<"x">>, <<"h1">>)}

-----------------------------------------------------------------------------
(* State of a run *)

EmptyMap == <<>>

Put(f, k, v) == [x \in DOMAIN f \cup {k} |-> IF x = k THEN v ELSE f[x]]

\* summary: the counts that the prints at the end of a run report
EmptyAcc == [index |-> <<>>, attachment_map |-> EmptyMap, note_attachments |-> EmptyMap,
             attachment_index |-> <<>>, summary |-> EmptyMap]

FnIdle == [pc |-> "idle"]

InitRun(p, D, Fails) ==
    /\ prog = p
    /\ doc \in D \cup {Malformed}
    /\ env \in [now : {1}, failNote : Fails]
    /\ pc = "start"
    /\ err = ""
    /\ i = 0
    /\ j = 0
    /\ notes = <<>>
    /\ resources = <<>>
    /\ dirs = {}
    /\ attFiles = EmptyMap
    /\ noteFiles = EmptyMap
    /\ acc = EmptyAcc
    /\ prev = <<>>
    /\ fn = FnIdle

InitParse == InitRun("parse", Docs(PlainHeads, ParseRes), {0})

InitIndividual == InitRun("individual", Docs(PlainHeads, IndividualRes), 0..MaxNotes)

InitEnhanced == InitRun("enhanced", Docs(MediaHeads, EnhancedRes), 0..MaxNotes)

InitAttach == InitRun("attach", Docs({<<TRUE, <<"a">>, <<"x">>, <<>>, <<>>>>}, AttachRes), {0})

Raise(e) == pc' = "raised" /\ err' = e

Terminated == pc \in {"done", "raised"}

-----------------------------------------------------------------------------
(* ENEXParser.parse_enex_file, one step per statement that can leave it *)

\* tree = ET.parse(file_path)
parse_enex_file_open ==
    /\ prog \in {"parse", "individual"}
    /\ pc = "start"
    /\ IF doc.wf THEN pc' = "parse" /\ err' = err ELSE Raise("ParseError")
    /\ UNCHANGED <<doc, prog, i, j, notes, resources, dirs, attFiles, noteFiles, acc, env,
                   prev, fn>>

\* one turn of "for note_elem in root.findall('note')"
parse_enex_file_note ==
    /\ prog \in {"parse", "individual"}
    /\ pc = "parse"
    /\ i < Len(doc.notes)
    /\ IF ParseNoteRaises(doc.notes[i + 1])
       THEN Raise("binascii.Error") /\ UNCHANGED <<i, notes>>
       ELSE /\ notes' = Append(notes, _parse_note(doc.notes[i + 1], i + 1))
            /\ i' = i + 1
            /\ UNCHANGED <<pc, err>>
    /\ UNCHANGED <<doc, prog, j, resources, dirs, attFiles, noteFiles, acc, env, prev, fn>>

\* return notes; export_notes_individually goes on with them
parse_enex_file_return ==
    /\ prog \in {"parse", "individual"}
    /\ pc = "parse"
    /\ i = Len(doc.notes)
    /\ pc' = IF prog = "parse" THEN "done" ELSE "mkdir"
    /\ i' = 0
    /\ UNCHANGED <<doc, prog, err, j, notes, resources, dirs, attFiles, noteFiles, acc, env,
                   prev, fn>>

-----------------------------------------------------------------------------
(* IndividualNoteExporter.export_notes_individually *)

OutputDir == [dir |-> "output", stamp |-> env.now]

AttachmentsDir(stamp) == [dir |-> "attachments", stamp |-> stamp]

\* output_dir.mkdir(parents=True, exist_ok=True)
individual_mkdir ==
    /\ prog = "individual"
    /\ pc = "mkdir"
    /\ dirs' = dirs \cup {OutputDir}
    /\ pc' = "notes"
    /\ UNCHANGED <<doc, prog, err, i, j, notes, resources, attFiles, noteFiles, acc, env,
                   prev, fn>>

\* "if 'created' in note: f.write(f"**Created:** {note['created']}  \n")":
\* <<>> when no line is written, else <<the value written>>
IndividualDateLine(value) == IF value = <<>> THEN <<>> ELSE <<FmtValue(value[1])>>

\* note.get('created', '')
GetOrEmpty(value) == IF value = <<>> THEN PyStr(<<>>) ELSE value[1]

\* the lines written under "## Attachments"
IndividualResourceLines(note) ==
    SelectSeq(note.resources, LAMBDA r : r.filename # <<>>)

\* one turn of "for i, note in enumerate(notes, 1)"
individual_write_note ==
    /\ prog = "individual"
    /\ pc = "notes"
    /\ i < Len(notes)
    /\ LET note == notes[i + 1]
           filename == NoteFilename(i + 1, note.title.s)
       IN  IF note.title.none THEN Raise("TypeError") /\ UNCHANGED <<i, noteFiles, acc>>
           ELSE IF env.failNote = i + 1
           THEN Raise("OSError") /\ UNCHANGED <<i, noteFiles, acc>>
           ELSE /\ noteFiles' = Put(noteFiles, filename,
                        [kind |-> "note", elem |-> note.elem, title |-> note.title.s,
                         created |-> IndividualDateLine(note.created),
                         modified |-> IndividualDateLine(note.modified),
                         body |-> IF note.content_text = <<>>
                                  THEN _html_to_text(note.content_html)
                                  ELSE note.content_text,
                         attachments |-> IndividualResourceLines(note)])
                /\ acc' = [acc EXCEPT !.index = Append(@,
                        [n |-> i + 1, elem |-> note.elem, title |-> note.title.s,
                         filename |-> filename])]
                /\ i' = i + 1
                /\ UNCHANGED <<pc, err>>
    /\ UNCHANGED <<doc, prog, j, notes, resources, dirs, attFiles, env, prev, fn>>

\* index_path = output_dir / "README.md"
individual_write_index ==
    /\ prog = "individual"
    /\ pc = "notes"
    /\ i = Len(notes)
    /\ noteFiles' = Put(noteFiles, <<"README.md">>,
                        [kind |-> "index", total |-> Len(notes), entries |-> acc.index])
    /\ pc' = "manifest"
    /\ UNCHANGED <<doc, prog, err, i, j, notes, resources, dirs, attFiles, acc, env, prev, fn>>

\* metadata_path = output_dir / "metadata.json" and
\* print(f"Successfully exported {len(notes)} notes to: {output_dir}")
individual_write_manifest ==
    /\ prog = "individual"
    /\ pc = "manifest"
    /\ noteFiles' = Put(noteFiles, <<"metadata.json">>,
            [kind |-> "manifest", note_count |-> Len(notes),
             notes_summary |-> [k \in DOMAIN notes |->
                 [index |-> k, elem |-> notes[k].elem, title |-> notes[k].title,
                  created |-> GetOrEmpty(notes[k].created),
                  modified |-> GetOrEmpty(notes[k].modified),
                  has_attachments |-> notes[k].resources # <<>>]]])
    /\ acc' = [acc EXCEPT !.summary = [notes |-> Len(notes)]]
    /\ pc' = "done"
    /\ UNCHANGED <<doc, prog, err, i, j, notes, resources, dirs, attFiles, env, prev, fn>>

-----------------------------------------------------------------------------
(* EnhancedNoteExporter.export_notes_with_images *)

\* an exporter that goes on to its directories whatever the parse said: what C6 rules out
enhanced_open_Lenient ==
    /\ prog = "enhanced"
    /\ pc = "start"
    /\ pc' = "mkdir"
    /\ UNCHANGED <<doc, prog, err, i, j, notes, resources, dirs, attFiles, noteFiles, acc,
                   env, prev, fn>>

\* tree = ET.parse(enex_file_path)
enhanced_open ==
    /\ prog = "enhanced"
    /\ pc = "start"
    /\ IF doc.wf THEN pc' = "mkdir" /\ err' = err ELSE Raise("ParseError")
    /\ UNCHANGED <<doc, prog, i, j, notes, resources, dirs, attFiles, noteFiles, acc, env,
                   prev, fn>>

\* output_dir.mkdir(parents=True, exist_ok=True); attachments_dir.mkdir(exist_ok=True)
enhanced_mkdir ==
    /\ prog = "enhanced"
    /\ pc = "mkdir"
    /\ dirs' = dirs \cup {OutputDir, AttachmentsDir(env.now)}
    /\ pc' = "notes"
    /\ UNCHANGED <<doc, prog, err, i, j, notes, resources, attFiles, noteFiles, acc, env,
                   prev, fn>>

\* a descriptor returned without its file being written: what C26 rules out
enhanced_extract_resource_NoWrite ==
    /\ prog = "enhanced"
    /\ pc = "notes"
    /\ i < Len(doc.notes)
    /\ j < Len(doc.notes[i + 1].resources)
    /\ LET res == doc.notes[i + 1].resources[j + 1]
           resource == EnhancedNoteExporter_extract_resource(res, i + 1)
       IN  IF resource = <<>> THEN UNCHANGED <<attFiles, resources>>
           ELSE /\ attFiles' = attFiles
                /\ resources' = Append(resources, resource[1])
    /\ j' = j + 1
    /\ UNCHANGED <<doc, prog, pc, err, i, notes, dirs, noteFiles, acc, env, prev, fn>>

\* one turn of "for resource_elem in note_elem.findall('resource')"
enhanced_extract_resource ==
    /\ prog = "enhanced"
    /\ pc = "notes"
    /\ i < Len(doc.notes)
    /\ j < Len(doc.notes[i + 1].resources)
    /\ LET res == doc.notes[i + 1].resources[j + 1]
           resource == EnhancedNoteExporter_extract_resource(res, i + 1)
       IN  IF resource = <<>> THEN UNCHANGED <<attFiles, resources>>
           ELSE /\ attFiles' = Put(attFiles, resource[1].filename, res.bytes)
                /\ resources' = Append(resources, resource[1])
    /\ j' = j + 1
    /\ UNCHANGED <<doc, prog, pc, err, i, notes, dirs, noteFiles, acc, env, prev, fn>>

\* created = self._parse_date(created_elem.text) if created_elem is not None else ''
EnhancedDate(elem) == IF elem = <<>> THEN PyStr(<<>>) ELSE _parse_date(elem[1])

\* "if created: f.write(f"**Created:** {created}  \n")"
EnhancedDateLine(value) ==
    IF value.none \/ value.s = <<>> THEN <<>> ELSE <<FmtValue(value)>>

\* the entries written under "## Additional Attachments"
AdditionalAttachments(descs) ==
    LET non_image == SelectSeq(descs, LAMBDA r : ~r.is_image)
    IN  [k \in DOMAIN non_image |->
            [text |-> Fmt(non_image[k].original_filename),
             path |-> non_image[k].relative_path,
             mime_type |-> non_image[k].mime_type,
             size |-> non_image[k].size]]

\* a loop that keeps the resources of the notes before: what C23 rules out
enhanced_write_note_KeepResources ==
    /\ prog = "enhanced"
    /\ pc = "notes"
    /\ i < Len(doc.notes)
    /\ j = Len(doc.notes[i + 1].resources)
    /\ LET note == doc.notes[i + 1]
           title == TitleOf(note)
           filename == NoteFilename(i + 1, title.s)
       IN  IF title.none
           THEN Raise("TypeError") /\ UNCHANGED <<i, j, resources, noteFiles, acc>>
           ELSE IF env.failNote = i + 1
           THEN Raise("OSError") /\ UNCHANGED <<i, j, resources, noteFiles, acc>>
           ELSE /\ noteFiles' = Put(noteFiles, filename,
                        [kind |-> "note", elem |-> i + 1, title |-> title.s,
                         created |-> EnhancedDateLine(EnhancedDate(note.created)),
                         modified |-> EnhancedDateLine(EnhancedDate(note.updated)),
                         body |-> _html_to_markdown_with_images(note.content, resources),
                         attachments |-> AdditionalAttachments(resources)])
                /\ acc' = [acc EXCEPT !.index = Append(@,
                        [n |-> i + 1, elem |-> i + 1, title |-> title.s,
                         filename |-> filename,
                         images |-> Len(SelectSeq(resources, LAMBDA r : r.is_image))])]
                /\ i' = i + 1
                /\ j' = 0
                /\ resources' = resources
                /\ UNCHANGED <<pc, err>>
    /\ UNCHANGED <<doc, prog, notes, dirs, attFiles, env, prev, fn>>

\* the rest of one turn of "for note_idx, note_elem in enumerate(...)"
enhanced_write_note ==
    /\ prog = "enhanced"
    /\ pc = "notes"
    /\ i < Len(doc.notes)
    /\ j = Len(doc.notes[i + 1].resources)
    /\ LET note == doc.notes[i + 1]
           title == TitleOf(note)
           filename == NoteFilename(i + 1, title.s)
       IN  IF title.none
           THEN Raise("TypeError") /\ UNCHANGED <<i, j, resources, noteFiles, acc>>
           ELSE IF env.failNote = i + 1
           THEN Raise("OSError") /\ UNCHANGED <<i, j, resources, noteFiles, acc>>
           ELSE /\ noteFiles' = Put(noteFiles, filename,
                        [kind |-> "note", elem |-> i + 1, title |-> title.s,
                         created |-> EnhancedDateLine(EnhancedDate(note.created)),
                         modified |-> EnhancedDateLine(EnhancedDate(note.updated)),
                         body |-> _html_to_markdown_with_images(note.content, resources),
                         attachments |-> AdditionalAttachments(resources)])
                /\ acc' = [acc EXCEPT !.index = Append(@,
                        [n |-> i + 1, elem |-> i + 1, title |-> title.s,
                         filename |-> filename,
                         images |-> Len(SelectSeq(resources, LAMBDA r : r.is_image))])]
                /\ i' = i + 1
                /\ j' = 0
                /\ resources' = <<>>
                /\ UNCHANGED <<pc, err>>
    /\ UNCHANGED <<doc, prog, notes, dirs, attFiles, env, prev, fn>>

\* an index written before the last note is done: what C22 rules out
enhanced_write_index_Early ==
    /\ prog = "enhanced"
    /\ pc = "notes"
    /\ j = 0
    /\ noteFiles' = Put(noteFiles, <<"README.md">>,
                        [kind |-> "index", total |-> i, entries |-> acc.index])
    /\ acc' = [acc EXCEPT !.summary = [notes |-> i]]
    /\ pc' = "done"
    /\ UNCHANGED <<doc, prog, err, i, j, notes, resources, dirs, attFiles, env, prev, fn>>

\* index_path = output_dir / "README.md" and
\* print(f"Successfully exported {note_count} notes with embedded images to: ...")
enhanced_write_index ==
    /\ prog = "enhanced"
    /\ pc = "notes"
    /\ i = Len(doc.notes)
    /\ noteFiles' = Put(noteFiles, <<"README.md">>,
                        [kind |-> "index", total |-> i, entries |-> acc.index])
    /\ acc' = [acc EXCEPT !.summary = [notes |-> i]]
    /\ pc' = "done"
    /\ UNCHANGED <<doc, prog, err, i, j, notes, resources, dirs, attFiles, env, prev, fn>>

-----------------------------------------------------------------------------
(* AttachmentExtractor.extract_attachments_from_enex *)

\* tree = ET.parse(enex_file_path)
attach_open ==
    /\ prog = "attach"
    /\ pc = "start"
    /\ IF doc.wf THEN pc' = "mkdir" /\ err' = err ELSE Raise("ParseError")
    /\ UNCHANGED <<doc, prog, i, j, notes, resources, dirs, attFiles, noteFiles, acc, env,
                   prev, fn>>

\* attachments_dir.mkdir(exist_ok=True), inside the notebook directory it was given
attach_mkdir ==
    /\ prog = "attach"
    /\ pc = "mkdir"
    /\ dirs' = dirs \cup {AttachmentsDir(0)}
    /\ pc' = "notes"
    /\ UNCHANGED <<doc, prog, err, i, j, notes, resources, attFiles, noteFiles, acc, env,
                   prev, fn>>

\* a map with one entry per file name instead of one per hash: what C25 rules out
attach_extract_resource_ByName ==
    /\ prog = "attach"
    /\ pc = "notes"
    /\ i < Len(doc.notes)
    /\ j < Len(doc.notes[i + 1].resources)
    /\ LET res == doc.notes[i + 1].resources[j + 1]
           attachment_info == AttachmentExtractor_extract_resource(res, i + 1)
       IN  IF attachment_info = <<>> THEN UNCHANGED <<attFiles, resources, acc>>
           ELSE /\ attFiles' = Put(attFiles, attachment_info[1].filename, res.bytes)
                /\ resources' = Append(resources, attachment_info[1])
                /\ acc' = [acc EXCEPT !.attachment_map =
                                Put(@, attachment_info[1].filename, attachment_info[1])]
    /\ j' = j + 1
    /\ UNCHANGED <<doc, prog, pc, err, i, notes, dirs, noteFiles, env, prev, fn>>

\* one turn of "for resource_elem in note_elem.findall('resource')"
attach_extract_resource ==
    /\ prog = "attach"
    /\ pc = "notes"
    /\ i < Len(doc.notes)
    /\ j < Len(doc.notes[i + 1].resources)
    /\ LET res == doc.notes[i + 1].resources[j + 1]
           attachment_info == AttachmentExtractor_extract_resource(res, i + 1)
       IN  IF attachment_info = <<>> THEN UNCHANGED <<attFiles, resources, acc>>
           ELSE /\ attFiles' = Put(attFiles, attachment_info[1].filename, res.bytes)
                /\ resources' = Append(resources, attachment_info[1])
                /\ acc' = [acc EXCEPT !.attachment_map =
                                Put(@, attachment_info[1].hash, attachment_info[1])]
    /\ j' = j + 1
    /\ UNCHANGED <<doc, prog, pc, err, i, notes, dirs, noteFiles, env, prev, fn>>

\* note_title.text if note_title is not None else f"Note_{note_idx}"
AttachNoteTitle(note, note_idx) ==
    IF ~note.hasTitle THEN PyStr(<<"N", "o", "t", "e", "_">> \o Decimal(note_idx))
    ELSE IF note.title = <<>> THEN PyNone
    ELSE PyStr(note.title)

\* "if attachments: note_attachments[note_idx] = ..." and the next note
attach_end_note ==
    /\ prog = "attach"
    /\ pc = "notes"
    /\ i < Len(doc.notes)
    /\ j = Len(doc.notes[i + 1].resources)
    /\ acc' = IF resources = <<>> THEN acc
              ELSE [acc EXCEPT !.note_attachments =
                        Put(@, i + 1, [title |-> AttachNoteTitle(doc.notes[i + 1], i + 1),
                                       attachments |-> resources])]
    /\ i' = i + 1
    /\ j' = 0
    /\ resources' = <<>>
    /\ UNCHANGED <<doc, prog, pc, err, notes, dirs, attFiles, noteFiles, env, prev, fn>>

RECURSIVE SumLen(_, _)
SumLen(f, D) ==
    IF D = {} THEN 0
    ELSE LET d == CHOOSE x \in D : TRUE
         IN  Len(f[d].attachments) + SumLen(f, D \ {d})

\* print(f"Extracted {len(attachment_map)} unique attachments"),
\* _create_attachment_index and the return
attach_index ==
    /\ prog = "attach"
    /\ pc = "notes"
    /\ i = Len(doc.notes)
    /\ acc' = [acc EXCEPT !.attachment_index =
                    <<[total |-> SumLen(acc.note_attachments, DOMAIN acc.note_attachments),
                       unique |-> Cardinality(DOMAIN acc.attachment_map)]>>,
                           !.summary = [attachments |-> Cardinality(DOMAIN acc.attachment_map)]]
    /\ pc' = "done"
    /\ UNCHANGED <<doc, prog, err, i, j, notes, resources, dirs, attFiles, noteFiles, env,
                   prev, fn>>

(* The same input is extracted once more, into an empty destination; what  *)
(* the first run left is kept in prev.                                     *)
attach_rerun ==
    /\ prog = "attach"
    /\ pc = "done"
    /\ prev = <<>>
    /\ prev' = <<[files |-> attFiles, attachment_map |-> acc.attachment_map,
                  note_attachments |-> acc.note_attachments]>>
    /\ env' = [env EXCEPT !.now = @ + 1]
    /\ pc' = "start"
    /\ i' = 0
    /\ j' = 0
    /\ dirs' = {}
    /\ attFiles' = EmptyMap
    /\ acc' = EmptyAcc
    /\ UNCHANGED <<doc, prog, err, notes, resources, noteFiles, fn>>

-----------------------------------------------------------------------------
(* FinalImageEmbedder: the repair of the [Attachment] markers of a note    *)
(* file from the resources of the note                                     *)

\* _analyze_resource: hash is <<>> for None; every resource gets a record
_analyze_resource(res) ==
    [mime_type |-> IF res.mime = <<>> THEN "" ELSE res.mime[1],
     filename |-> res.fname,
     hash |-> IF res.data = "b64" THEN <<MD5Hex8(res.bytes)>> ELSE <<>>,
     is_image |-> res.mime # <<>> /\ IsImageMime(res.mime[1])]

\* f"{resource['hash']}"
FmtHash(hash) == IF hash = <<>> THEN "None" ELSE hash[1]

\* the table of FinalImageEmbedder._get_extension_from_mime
Embedder_mime_to_ext ==
    [m \in {"image/jpeg", "image/png", "image/gif", "image/svg+xml", "image/webp"} |->
        CASE m = "image/jpeg" -> "jpg"
          [] m = "image/png" -> "png"
          [] m = "image/gif" -> "gif"
          [] m = "image/svg+xml" -> "svg"
          [] m = "image/webp" -> "webp"]

Embedder_get_extension_from_mime(mime_type) ==
    IF mime_type \in DOMAIN Embedder_mime_to_ext THEN <<".", Embedder_mime_to_ext[mime_type]>>
    ELSE <<".", "bin">>

\* "Generate filename (same logic as in extractor)"
EmbedderFilename(resource) ==
    IF resource.filename # <<>>
    THEN LET clean == PyStrip(RemoveChar(RemoveChar(resource.filename, "\n"), "\r"))
             parts == RSplitDot(clean)
             clean_filename == IF Len(clean) > 50
                               THEN IF Len(parts) = 2
                                    THEN Take(parts[1], 40) \o <<".">> \o parts[2]
                                    ELSE Take(clean, 50)
                               ELSE clean
         IN  <<FmtHash(resource.hash), "_">> \o clean_filename
    ELSE <<FmtHash(resource.hash)>> \o Embedder_get_extension_from_mime(resource.mime_type)

EndsWith(s, t) == Len(s) >= Len(t) /\ SubSeq(s, Len(s) - Len(t) + 1, Len(s)) = t

\* alt_text = resource['filename'] or 'Image'
AltText(resource) == IF resource.filename # <<>> THEN resource.filename ELSE <<"Image">>

(* "Check if it's likely an emoji/icon"; the digests of the model are      *)
(* atoms, and the letters of the model are lower-case, so '1f' and 'emoji' *)
(* are looked for in the characters of the declared name.                  *)
InlineIcon(filename, alt_text) ==
    /\ EndsWith(filename, <<".", "s", "v", "g">>) \/ EndsWith(filename, <<".", "svg">>)
    /\ \/ Len(alt_text) < 20
       \/ Contains(filename, <<"1", "f">>)
       \/ Contains(filename, <<"e", "m", "o", "j", "i">>)

\* the element appended to new_lines in the place of a marker line
EmbeddedLine(resource) ==
    LET filename == EmbedderFilename(resource)
        ref == <<"![">> \o AltText(resource) \o <<"](", "attachments/">> \o filename \o <<")">>
    IN  IF InlineIcon(filename, AltText(resource)) THEN ref
        ELSE <<"\n">> \o ref \o <<"\n">>

\* content.split('\n')
RECURSIVE Split(_)
Split(content) ==
    LET n == FindFrom(content, 0, {"\n"})
    IN  IF n = 0 THEN <<content>>
        ELSE <<SubSeq(content, 1, n - 1)>> \o Split(Drop(content, n))

\* '\n'.join(new_lines)
RECURSIVE Join(_)
Join(lines) ==
    IF Len(lines) = 0 THEN <<>>
    ELSE IF Len(lines) = 1 THEN lines[1]
    ELSE lines[1] \o <<"\n">> \o Join(Tail(lines))

\* a loop that never moves to the next image: what C24 rules out
RECURSIVE EmbedLines_Reuse(_, _, _)
EmbedLines_Reuse(lines, image_resources, image_index) ==
    IF lines = <<>> THEN <<>>
    ELSE IF Marker \in Range(Head(lines)) /\ image_index < Len(image_resources)
    THEN <<EmbeddedLine(image_resources[image_index + 1])>>
         \o EmbedLines_Reuse(Tail(lines), image_resources, image_index)
    ELSE <<Head(lines)>> \o EmbedLines_Reuse(Tail(lines), image_resources, image_index)

\* "for line in lines": the new_lines of the lines that are left
RECURSIVE EmbedLines(_, _, _)
EmbedLines(lines, image_resources, image_index) ==
    IF lines = <<>> THEN <<>>
    ELSE IF Marker \in Range(Head(lines)) /\ image_index < Len(image_resources)
    THEN <<EmbeddedLine(image_resources[image_index + 1])>>
         \o EmbedLines(Tail(lines), image_resources, image_index + 1)
    ELSE <<Head(lines)>> \o EmbedLines(Tail(lines), image_resources, image_index)

_smart_embed_images(content, note_resources) ==
    LET image_resources == SelectSeq(note_resources, LAMBDA r : r.is_image)
    IN  IF image_resources = <<>> THEN content
        ELSE Join(EmbedLines(Split(content), image_resources, 0))

-----------------------------------------------------------------------------
(* The functions on their own: Init draws the arguments, one step calls    *)
(* the function and keeps what it returned in fn.                          *)

MaxContent == 3

MaxTitle == 102

InitFn(p, Calls) ==
    /\ prog = p
    /\ fn \in Calls
    /\ doc = Malformed
    /\ env = [now |-> 1, failNote |-> 0]
    /\ pc = "fn"
    /\ err = ""
    /\ i = 0
    /\ j = 0
    /\ notes = <<>>
    /\ resources = <<>>
    /\ dirs = {}
    /\ attFiles = EmptyMap
    /\ noteFiles = EmptyMap
    /\ acc = EmptyAcc
    /\ prev = <<>>

\* what a note's content is made of
ContentTokens ==
    {"x", "<", ">", "<en-media hash=\"h1\"/>", "<en-media/>"}

\* the resources of the note whose content is converted
ConvertRes ==
    {Res("b64", <<0>>, "base64", <<"image/png">>, <<"x">>, <<"h1">>),
     Res("b64", <<1>>, "base64", <<"image/png">>, <<"x", "<", "y">>, <<"h1">>),
     Res("b64", <<1>>, "base64", <<"application/pdf">>, <<>>, <<"h1">>),
     Res("b64", <<0, 0>>, "base64", <<"image/png">>, <<>>, <<"h1">>),
     Res("b64", <<0>>, "base64", <<"application/pdf">>, <<"y">>, <<>>),
     Res("bad", <<>>, "base64", <<"image/png">>, <<"x">>, <<"h2">>)}

\* "for resource_elem in note_elem.findall('resource')" of export_notes_with_images
ExtractAll(rs, note_idx) ==
    Flatten([k \in DOMAIN rs |-> EnhancedNoteExporter_extract_resource(rs[k], note_idx)])

InitConvert ==
    InitFn("convert",
           [pc : {"call"}, html_content : SeqsUpTo(ContentTokens, MaxContent),
            res : SeqsUpTo(ConvertRes, MaxRes)])

\* markdown_content = self._html_to_markdown_with_images(content, resources)
convert_call ==
    /\ prog = "convert"
    /\ fn.pc = "call"
    /\ LET descs == ExtractAll(fn.res, 1)
       IN  fn' = [pc |-> "return", html_content |-> fn.html_content, res |-> fn.res,
                  resources |-> descs,
                  out |-> _html_to_markdown_with_images(fn.html_content, descs)]
    /\ UNCHANGED runVars

SpecConvert == InitConvert /\ [][convert_call]_vars

\* a run of n times the letter a
Pad(n) == [k \in 1..n |-> "a"]

TitleEnds == {<<>>, <<" ">>, <<".">>, <<"<">>, <<"/", "?">>, <<" ", " ">>, <<"b", " ", ".">>}

\* titles around the length at which sanitize_filename cuts, and short ones
Titles ==
    {pre \o Pad(n) \o suf :
        pre \in TitleEnds, suf \in TitleEnds,
        n \in (0..2) \cup ((MaxTitleLength - 4)..MaxTitle)}

SeqNumbers == {1, 42, 9999, 10000}

InitSanitize == InitFn("sanitize", [pc : {"call"}, note_idx : SeqNumbers, title : Titles])

\* safe_title = self.sanitize_filename(title); filename = f"{note_idx:04d}_{safe_title}.md"
sanitize_call ==
    /\ prog = "sanitize"
    /\ fn.pc = "call"
    /\ fn' = [pc |-> "return", note_idx |-> fn.note_idx, title |-> fn.title,
              safe_title |-> sanitize_filename(fn.title),
              filename |-> NoteFilename(fn.note_idx, fn.title)]
    /\ UNCHANGED runVars

SpecSanitize == InitSanitize /\ [][sanitize_call]_vars

InitExtract ==
    InitFn("extract",
           [pc : {"call"}, class : {"AttachmentExtractor", "EnhancedNoteExporter"},
            a : AttachRes, b : AttachRes, note_a : 1..MaxNotes, note_b : 1..MaxNotes])

_extract_resource(class, res, note_idx) ==
    IF class = "AttachmentExtractor" THEN AttachmentExtractor_extract_resource(res, note_idx)
    ELSE EnhancedNoteExporter_extract_resource(res, note_idx)

\* two calls of _extract_resource, on resources of the same or of different notes
extract_call ==
    /\ prog = "extract"
    /\ fn.pc = "call"
    /\ fn' = [pc |-> "return", class |-> fn.class, a |-> fn.a, b |-> fn.b,
              note_a |-> fn.note_a, note_b |-> fn.note_b,
              out_a |-> _extract_resource(fn.class, fn.a, fn.note_a),
              out_b |-> _extract_resource(fn.class, fn.b, fn.note_b)]
    /\ UNCHANGED runVars

SpecExtract == InitExtract /\ [][extract_call]_vars

MaxStem == 52

\* declared file names: whitespace and line ends around a stem of up to
\* MaxStem letters, with no dot, one dot, two dots or a final dot
FileNames ==
    {lead \o Pad(n) \o mid \o tail :
        lead \in {<<>>, <<" ">>, <<"\n", " ">>},
        n \in (0..1) \cup ((StemLimit - 4)..MaxStem),
        mid \in {<<>>, <<".", "p", "d", "f">>, <<".", "b", " ", ".", "c">>, <<".">>},
        tail \in {<<>>, <<"\r">>, <<" ", "\n">>}} \ {<<>>}

MimeTypes == DOMAIN mime_to_ext \cup {"application/octet-stream", "application/x-foo"}

InitFilename ==
    InitFn("filename",
           [pc : {"call"}, data_hash : {HexName[k] : k \in 1..HashSpace},
            mime_type : MimeTypes, filename : {<<>>}]
           \cup
           [pc : {"call"}, data_hash : {HexName[k] : k \in 1..HashSpace},
            mime_type : {"image/png", "application/x-foo"}, filename : FileNames])

\* "Generate filename if not provided" ... "Add hash prefix to avoid conflicts"
filename_call ==
    /\ prog = "filename"
    /\ fn.pc = "call"
    /\ fn' = [pc |-> "return", data_hash |-> fn.data_hash, mime_type |-> fn.mime_type,
              filename |-> fn.filename,
              out |-> ResolveFilename(fn.data_hash, fn.mime_type, fn.filename)]
    /\ UNCHANGED runVars

SpecFilename == InitFilename /\ [][filename_call]_vars

\* content written with entity-escaped angle brackets, and a tag
EscapedTokens == {"x", "&lt;", "&gt;", "<b>"}

InitText ==
    InitFn("text",
           [pc : {"call"}, routine : {"_html_to_text", "_html_to_markdown_with_images"},
            html_content : SeqsUpTo(EscapedTokens, MaxContent)])

\* self._html_to_text(content) of the parser, or
\* self._html_to_markdown_with_images(content, resources) of a note without resources
text_call ==
    /\ prog = "text"
    /\ fn.pc = "call"
    /\ fn' = [pc |-> "return", routine |-> fn.routine, html_content |-> fn.html_content,
              out |-> IF fn.routine = "_html_to_text" THEN _html_to_text(fn.html_content)
                      ELSE _html_to_markdown_with_images(fn.html_content, <<>>)]
    /\ UNCHANGED runVars

SpecText == InitText /\ [][text_call]_vars

\* content made of text, whitespace, whitespace written as an entity, and a placeholder
SpaceTokens == {"x", " ", "\n", "&#32;", "<en-media/>"}

InitSpace ==
    InitFn("text",
           [pc : {"call"}, routine : {"_html_to_markdown_with_images"},
            html_content : SeqsUpTo(SpaceTokens, MaxContent)])

SpecSpace == InitSpace /\ [][text_call]_vars

MaxMarkdown == 4

\* what the note file read back is made of
MarkdownTokens == {"x", Marker, "\n"}

\* the resources of the note whose file is repaired: images with and without
\* a name, with a long name, an icon, another type, and images without a
\* payload to extract
EmbedRes ==
    {Res("b64", <<0>>, "base64", <<"image/png">>, <<"x">>, <<"h1">>),
     Res("b64", <<1>>, "base64", <<"image/png">>, <<>>, <<"h1">>),
     Res("b64", <<1>>, "base64", <<"image/png">>,
         <<" ">> \o [k \in 1..47 |-> "a"] \o <<".", "p", "n", "g", "\n">>, <<"h1">>),
     Res("b64", <<0>>, "base64", <<"image/svg+xml">>, <<>>, <<"h1">>),
     Res("b64", <<0>>, "base64", <<"application/pdf">>, <<"y">>, <<"h1">>),
     Res("bad", <<>>, "base64", <<"image/png">>, <<"x">>, <<"h1">>),
     Res("b64", <<0>>, "plain", <<"image/png">>, <<>>, <<"h1">>)}

InitEmbed ==
    InitFn("embed",
           [pc : {"call"}, content : SeqsUpTo(MarkdownTokens, MaxMarkdown),
            res : SeqsUpTo(EmbedRes, MaxRes)])

\* resources.append(self._analyze_resource(resource_elem)) for the resources of
\* the note, then new_content = self._smart_embed_images(content, resources)
embed_call ==
    /\ prog = "embed"
    /\ fn.pc = "call"
    /\ LET analyzed == [k \in DOMAIN fn.res |-> _analyze_resource(fn.res[k])]
       IN  fn' = [pc |-> "return", content |-> fn.content, res |-> fn.res,
                  resources |-> analyzed,
                  out |-> _smart_embed_images(fn.content, analyzed)]
    /\ UNCHANGED runVars

SpecEmbed == InitEmbed /\ [][embed_call]_vars

\* the timestamps _parse_date is called on: a year, then month, day, the
\* letter T, hour, minute and second written in full, in short or not at all,
\* then what may follow them
Stamps ==
    {<<"2", "0", "2">> \o y \o m \o d \o t \o h \o mi \o sec \o z :
        y \in {<<"4">>, <<"3">>},
        m \in {<<"0", "1">>, <<"2">>, <<"1", "3">>},
        d \in {<<"1", "5">>, <<"2", "9">>, <<"5">>},
        t \in {<<"T">>, <<"t">>, <<>>},
        h \in {<<"1", "2">>, <<"2", "4">>},
        mi \in {<<"3", "4">>, <<"3">>},
        sec \in {<<"5", "6">>, <<"4">>, <<>>},
        z \in {<<>>, <<"Z">>, <<"0", "Z">>}}

InitDate ==
    InitFn("date", [pc : {"call"}, date_str : {PyNone, PyStr(<<>>)} \cup {PyStr(x) : x \in Stamps}])

\* self._parse_date(created_elem.text)
date_call ==
    /\ prog = "date"
    /\ fn.pc = "call"
    /\ fn' = [pc |-> "return", date_str |-> fn.date_str, out |-> _parse_date(fn.date_str)]
    /\ UNCHANGED runVars

SpecDate == InitDate /\ [][date_call]_vars

-----------------------------------------------------------------------------
(* The runs *)

NextParse == parse_enex_file_open \/ parse_enex_file_note \/ parse_enex_file_return

NextIndividual ==
    \/ NextParse
    \/ individual_mkdir
    \/ individual_write_note
    \/ individual_write_index
    \/ individual_write_manifest

NextEnhanced ==
    \/ enhanced_open
    \/ enhanced_mkdir
    \/ enhanced_extract_resource
    \/ enhanced_write_note
    \/ enhanced_write_index

NextAttach ==
    \/ attach_open
    \/ attach_mkdir
    \/ attach_extract_resource
    \/ attach_end_note
    \/ attach_index
    \/ attach_rerun

Init == InitParse \/ InitIndividual \/ InitEnhanced \/ InitAttach

Next == NextIndividual \/ NextEnhanced \/ NextAttach

Spec == Init /\ [][Next]_vars

SpecParse == InitParse /\ [][NextParse]_vars

SpecIndividual == InitIndividual /\ [][NextIndividual]_vars

SpecEnhanced == InitEnhanced /\ [][NextEnhanced]_vars

SpecAttach == InitAttach /\ [][NextAttach]_vars

-----------------------------------------------------------------------------
(* Properties *)

WellFormedRun(p) == prog = p /\ doc.wf

\* C1: parse_enex_file on a well-formed document returns one record per
\* <note> element, record k being that of the k-th element.
C1_OneRecordPerNote ==
    (WellFormedRun("parse") /\ Terminated) =>
        /\ pc = "done"
        /\ Len(notes) = Len(doc.notes)
        /\ \A k \in DOMAIN notes : notes[k].elem = k

Returned(p) == prog = p /\ fn.pc = "return"

\* well-formed markup around the placeholders, and no declared hash used twice
PlainMarkup(call) ==
    /\ "<" \notin Range(call.html_content)
    /\ \A a, b \in DOMAIN call.resources :
          call.resources[a].resource_hash = call.resources[b].resource_hash => a = b

\* C2: for every <en-media> placeholder whose hash is the declared hash of an
\* extracted resource of the note, the Markdown returned holds the reference
\* attachments/<resolved_filename> of that resource (here for content without
\* a stray "<" and resources with distinct declared hashes).
C2_ReferenceSurvives ==
    (Returned("convert") /\ PlainMarkup(fn)) =>
        \A k \in DOMAIN fn.html_content : \A m \in DOMAIN fn.resources :
            (/\ fn.html_content[k] \in EnMediaTags
             /\ HashOfMedia(fn.html_content[k]) # <<>>
             /\ HashOfMedia(fn.html_content[k]) = fn.resources[m].resource_hash)
            => Contains(fn.out, fn.resources[m].relative_path)

\* the placeholder has no hash attribute, or no extracted resource declares its hash
Unresolved(tag, descs) ==
    /\ tag \in EnMediaTags
    /\ \A m \in DOMAIN descs : descs[m].resource_hash = <<>>
                               \/ descs[m].resource_hash # HashOfMedia(tag)

MarkerText == <<"\n", "\n", "[Attachment]", "\n", "\n">>

\* the content with the marker written in the place of each unresolved placeholder
WithMarkers(content, descs) ==
    Flatten([k \in DOMAIN content |->
                IF Unresolved(content[k], descs) THEN MarkerText ELSE <<content[k]>>])

NoStrayLT(call) ==
    /\ "<" \notin Range(call.html_content)
    /\ \A m \in DOMAIN call.res : "<" \notin Range(call.res[m].fname)

\* C3: the conversion returns (it never raises) for content with unresolved
\* placeholders, and what it returns is what it returns for the same content
\* with the marker [Attachment] written in the place of each of them; where no
\* stray "<" can open a tag around it, each marker is in the output.
C3_UnresolvedBecomesMarker ==
    Returned("convert") =>
        /\ fn.out = _html_to_markdown_with_images(
                        WithMarkers(fn.html_content, fn.resources), fn.resources)
        /\ NoStrayLT(fn) =>
              Count(fn.out, "[Attachment]") =
                  Cardinality({k \in DOMAIN fn.html_content :
                                  Unresolved(fn.html_content[k], fn.resources)})

C3_Witness ==
    /\ Returned("convert")
    /\ NoStrayLT(fn)
    /\ fn.resources # <<>>
    /\ Count(fn.out, "[Attachment]") = 2
    /\ \E k \in DOMAIN fn.html_content : fn.html_content[k] = "<en-media/>"
    /\ \E k \in DOMAIN fn.html_content :
          /\ HashOfMedia(fn.html_content[k]) # <<>>
          /\ Unresolved(fn.html_content[k], fn.resources)

\* the four kinds of resource that are to be skipped
NoPayload(res) ==
    \/ res.data = "nodata"
    \/ res.data = "empty"
    \/ res.enc # "base64"
    \/ res.data = "bad"

\* the resources the loops have been through so far, in document order
Processed ==
    Flatten([k \in 1..Min(i, Len(doc.notes)) |-> doc.notes[k].resources])
    \o (IF i < Len(doc.notes) THEN Take(doc.notes[i + 1].resources, j) ELSE <<>>)

StoredName(res) == ResolveFilename(MD5Hex8(res.bytes), MimeType(res), res.fname)

\* C4: a resource without data, with empty data, with another encoding or
\* with undecodable data gives no descriptor and no file, and does not stop
\* the run: the descriptors of the current note are those of the other
\* resources gone through, and the files are those of the other resources
\* of all the notes gone through.
C4_SkipOnlyWithoutPayload ==
    (prog \in {"attach", "enhanced"} /\ doc.wf) =>
        /\ pc = "raised" => err \in {"TypeError", "OSError"}
        /\ DOMAIN attFiles =
              {StoredName(r) : r \in Range(SelectSeq(Processed, LAMBDA r : ~NoPayload(r)))}
        /\ (pc = "notes" /\ i < Len(doc.notes)) =>
              LET kept == SelectSeq(Take(doc.notes[i + 1].resources, j),
                                    LAMBDA r : ~NoPayload(r))
              IN  /\ Len(resources) = Len(kept)
                  /\ \A k \in DOMAIN kept :
                        /\ resources[k].filename = StoredName(kept[k])
                        /\ resources[k].size = Len(kept[k].bytes)

C4_Witness ==
    /\ WellFormedRun("attach")
    /\ pc = "done"
    /\ Len(doc.notes) = 2
    /\ Len(doc.notes[1].resources) = 1
    /\ doc.notes[1].resources[1].data = "bad"
    /\ Len(doc.notes[2].resources) = 1
    /\ Cardinality(DOMAIN attFiles) = 1
    /\ DOMAIN acc.note_attachments = {2}

\* the run meets no other failure than that of writing the file of note failNote
OnlyWriteFails ==
    /\ doc.wf
    /\ env.failNote \in 1..Len(doc.notes)
    /\ \A k \in DOMAIN doc.notes : ~TitleOf(doc.notes[k]).none /\ ~ParseNoteRaises(doc.notes[k])

\* C5: a failure to write the file of note k does not leave the exporter: the
\* files of the notes after k and the index are written.
C5_WriteFailureSkipsOneNote ==
    (prog \in {"enhanced", "individual"} /\ OnlyWriteFails /\ Terminated) =>
        /\ pc = "done"
        /\ <<"README.md">> \in DOMAIN noteFiles
        /\ \A k \in (env.failNote + 1)..Len(doc.notes) :
              NoteFilename(k, TitleOf(doc.notes[k]).s) \in DOMAIN noteFiles

\* C6: on a document that is not well-formed every entry point stops with the
\* parse error, having returned no record, made no directory and written no file.
C6_MalformedLeavesNothing ==
    ~doc.wf =>
        /\ pc \in {"start", "raised"}
        /\ pc = "raised" => err = "ParseError"
        /\ notes = <<>>
        /\ dirs = {}
        /\ attFiles = EmptyMap
        /\ noteFiles = EmptyMap

C6_Witness == prog = "enhanced" /\ ~doc.wf /\ pc = "raised" /\ err = "ParseError"

NoBadChar(name) == \A k \in DOMAIN name : name[k] \notin BadChars

\* C7: the note file name holds none of < > : " / \ | ? * and is at most
\* 100 + 5 characters long.
C7_Within105 ==
    Returned("sanitize") =>
        /\ NoBadChar(fn.filename)
        /\ Len(fn.filename) <= MaxTitleLength + 5

\* C7 amended: the note file name holds none of < > : " / \ | ? *, its
\* sanitized title is at most 100 characters long, and the name is at most
\* that of the sequence prefix (four digits or more, and "_"), the title and ".md".
C7_WithinPrefixTitleSuffix ==
    Returned("sanitize") =>
        /\ NoBadChar(fn.filename)
        /\ Len(fn.safe_title) <= MaxTitleLength
        /\ Len(fn.filename) <= Max(4, Len(Decimal(fn.note_idx))) + 1 + MaxTitleLength + 3

C7_Witness ==
    /\ Returned("sanitize")
    /\ \E k \in DOMAIN fn.title : fn.title[k] \in BadChars
    /\ Len(fn.title) > MaxTitleLength
    /\ Len(fn.filename) = MaxTitleLength + 8

\* C8: two resources with the same decoded bytes get the same content hash,
\* whatever their file names, MIME types, declared hashes and notes.
C8_SameBytesSameHash ==
    (Returned("extract") /\ fn.out_a # <<>> /\ fn.out_b # <<>> /\ fn.a.bytes = fn.b.bytes)
        => fn.out_a[1].hash = fn.out_b[1].hash

C8_Witness ==
    /\ Returned("extract")
    /\ fn.out_a # <<>>
    /\ fn.out_b # <<>>
    /\ fn.a.bytes = fn.b.bytes
    /\ fn.a.fname # fn.b.fname
    /\ fn.a.mime # fn.b.mime
    /\ fn.a.dhash # fn.b.dhash
    /\ fn.note_a # fn.note_b

\* the resources with a payload among those of the current note gone through
KeptOfNote ==
    IF pc = "notes" /\ i < Len(doc.notes)
    THEN SelectSeq(Take(doc.notes[i + 1].resources, j), LAMBDA r : ~NoPayload(r))
    ELSE <<>>

\* C9: two extracted resources with different decoded bytes never get the
\* same resolved file name, so that the file of each still holds its bytes.
C9_DifferentBytesDifferentNames ==
    (prog \in {"attach", "enhanced"} /\ Len(KeptOfNote) = Len(resources)) =>
        /\ \A a, b \in DOMAIN resources :
              KeptOfNote[a].bytes # KeptOfNote[b].bytes
                  => resources[a].filename # resources[b].filename
        /\ \A a \in DOMAIN resources : attFiles[resources[a].filename] = KeptOfNote[a].bytes

\* the descriptors the run holds
Descriptors ==
    Range(resources)
    \cup UNION {Range(acc.note_attachments[n].attachments) : n \in DOMAIN acc.note_attachments}

\* C9 amended: two extracted resources with different content hashes never
\* get the same resolved file name, and the file of each holds bytes of its
\* content hash.
C9_DifferentHashDifferentNames ==
    prog \in {"attach", "enhanced"} =>
        /\ \A a, b \in Descriptors : a.hash # b.hash => a.filename # b.filename
        /\ \A a \in Descriptors :
              /\ a.filename \in DOMAIN attFiles
              /\ MD5Hex8(attFiles[a.filename]) = a.hash

C9_Witness ==
    /\ prog = "attach"
    /\ Len(resources) = 2
    /\ resources[1].filename = resources[2].filename
    /\ resources[1].size # resources[2].size
    /\ resources[1].original_filename # <<>>

\* C10: a second extraction of the same input into an empty destination
\* gives the same file names, the same content hashes and the same bytes.
C10_RerunGivesSameFiles ==
    (prog = "attach" /\ prev # <<>> /\ pc = "done") =>
        /\ DOMAIN attFiles = DOMAIN prev[1].files
        /\ \A f \in DOMAIN attFiles : attFiles[f] = prev[1].files[f]
        /\ DOMAIN acc.attachment_map = DOMAIN prev[1].attachment_map
        /\ \A n \in DOMAIN acc.note_attachments :
              /\ n \in DOMAIN prev[1].note_attachments
              /\ \A k \in DOMAIN acc.note_attachments[n].attachments :
                    acc.note_attachments[n].attachments[k].hash =
                        prev[1].note_attachments[n].attachments[k].hash

C10_Witness ==
    /\ prog = "attach"
    /\ prev # <<>>
    /\ pc = "done"
    /\ Cardinality(DOMAIN attFiles) = 2
    /\ Cardinality(DOMAIN acc.attachment_map) = 2

\* the first 15 characters are YYYYMMDD, the letter T and HHMMSS of a date and time
ValidStamp(x) ==
    /\ Len(x) >= 15
    /\ \A k \in (1..8) \cup (10..15) : x[k] \in {"0", "1", "2", "3", "4", "5", "6", "7", "8", "9"}
    /\ x[9] \in {"T", "t"}
    /\ Num(SubSeq(x, 1, 4)) >= 1
    /\ Num(SubSeq(x, 5, 6)) \in 1..12
    /\ Num(SubSeq(x, 7, 8)) \in 1..DaysIn(Num(SubSeq(x, 1, 4)), Num(SubSeq(x, 5, 6)))
    /\ Num(SubSeq(x, 10, 11)) <= 23
    /\ Num(SubSeq(x, 12, 13)) <= 59
    /\ Num(SubSeq(x, 14, 15)) <= 59

\* YYYY-MM-DDTHH:MM:SS of a valid stamp
StampISO(x) ==
    SubSeq(x, 1, 4) \o <<"-">> \o SubSeq(x, 5, 6) \o <<"-">> \o SubSeq(x, 7, 8) \o <<"T">>
    \o SubSeq(x, 10, 11) \o <<":">> \o SubSeq(x, 12, 13) \o <<":">> \o SubSeq(x, 14, 15)

\* C14: _parse_date returns the ISO-8601 form of a timestamp whose first 15
\* characters are a valid YYYYMMDDTHHMMSS value, and returns every other
\* input unchanged.
C14_OtherInputsUnchanged ==
    Returned("date") =>
        IF ~fn.date_str.none /\ ValidStamp(fn.date_str.s)
        THEN fn.out = PyStr(StampISO(fn.date_str.s))
        ELSE fn.out = fn.date_str

\* a year of four digits, then month, day, T, hour, minute and second of one
\* or two characters each, and nothing else
LooseStamp(x) ==
    /\ Len(x) \in 10..15
    /\ \E k \in 6..9 :
          /\ x[k] \in {"T", "t"}
          /\ Len(x) - k \in 3..6
          /\ \A m \in (1..4) \cup ((k + 1)..Len(x)) :
                x[m] \in {"0", "1", "2", "3", "4", "5", "6", "7", "8", "9"}

\* C14 amended: _parse_date always returns; it returns the ISO-8601 form of
\* a timestamp whose first 15 characters are a valid YYYYMMDDTHHMMSS value,
\* returns None for None, and returns unchanged every string whose first 15
\* characters are not a year, month, day, T, hour, minute and second with
\* each field after the year in one or two characters; what it returns
\* instead of its argument is always a YYYY-MM-DDTHH:MM:SS text.
C14_ValidConvertedShapelessKept ==
    Returned("date") =>
        /\ fn.date_str.none => fn.out = fn.date_str
        /\ (~fn.date_str.none /\ ValidStamp(fn.date_str.s))
              => fn.out = PyStr(StampISO(fn.date_str.s))
        /\ (~fn.date_str.none /\ ~LooseStamp(Take(fn.date_str.s, 15)))
              => fn.out = fn.date_str
        /\ fn.out # fn.date_str =>
              /\ ~fn.out.none
              /\ Len(fn.out.s) = 19
              /\ ValidStamp(RemoveChar(RemoveChar(fn.out.s, "-"), ":"))

C14_Witness ==
    /\ Returned("date")
    /\ ~fn.date_str.none
    /\ ValidStamp(fn.date_str.s)
    /\ Len(fn.date_str.s) = 17
    /\ fn.out = PyStr(StampISO(fn.date_str.s))

\* the name without its newlines and carriage returns
NoLineEnds(name) == SelectSeq(name, LAMBDA c : c \notin {"\n", "\r"})

\* the name without the whitespace around it
Trimmed(name) ==
    LET K == {k \in DOMAIN name : name[k] \notin PySpace}
    IN  IF K = {} THEN <<>>
        ELSE SubSeq(name, CHOOSE k \in K : \A m \in K : k <= m,
                          CHOOSE k \in K : \A m \in K : m <= k)

\* a name of more than 50 characters with its stem cut to 40, or cut to 50
\* when it has no dot
CutName(c) ==
    LET D == {k \in DOMAIN c : c[k] = "."}
        d == CHOOSE k \in D : \A m \in D : m <= k
    IN  IF Len(c) <= 50 THEN c
        ELSE IF D = {} THEN SubSeq(c, 1, 50)
        ELSE SubSeq(c, 1, IF d - 1 < 40 THEN d - 1 ELSE 40) \o SubSeq(c, d, Len(c))

\* C11: for a non-empty declared file name the resolved file name is the
\* content hash, "_" and the cleaned name: the declared name without
\* newlines and carriage returns, stripped, and when longer than 50
\* characters with its stem cut to 40 and the extension kept, or cut to 50
\* without a dot.
C11_HashPrefixAndCleanedName ==
    (Returned("filename") /\ fn.filename # <<>>) =>
        fn.out = <<fn.data_hash, "_">> \o CutName(Trimmed(NoLineEnds(fn.filename)))

C11_Witness ==
    /\ Returned("filename")
    /\ Len(Trimmed(NoLineEnds(fn.filename))) > 50
    /\ Len(fn.filename) > Len(Trimmed(NoLineEnds(fn.filename)))
    /\ fn.out = <<fn.data_hash, "_">> \o Pad(40) \o <<".", "p", "d", "f">>

\* the extension the table gives, ".bin" for a type it does not list
TableExtension(mime_type) ==
    IF mime_type \in DOMAIN mime_to_ext THEN <<".", mime_to_ext[mime_type]>>
    ELSE <<".", "bin">>

\* C12: without a declared file name the resolved file name is the content
\* hash followed by the extension of the MIME table, the table has fourteen
\* entries, and a type outside the table gives .bin.
C12_FourteenEntries ==
    /\ Cardinality(DOMAIN mime_to_ext) = 14
    /\ (Returned("filename") /\ fn.filename = <<>>) =>
          fn.out = <<fn.data_hash>> \o TableExtension(fn.mime_type)

\* C12 amended: without a declared file name the resolved file name is the
\* content hash followed by the extension of the MIME table, the table has
\* fifteen entries, and a type outside the table gives .bin.
C12_FifteenEntries ==
    /\ Cardinality(DOMAIN mime_to_ext) = 15
    /\ (Returned("filename") /\ fn.filename = <<>>) =>
          fn.out = <<fn.data_hash>> \o TableExtension(fn.mime_type)

C12_Witness ==
    /\ Returned("filename")
    /\ fn.filename = <<>>
    /\ fn.mime_type \notin DOMAIN mime_to_ext
    /\ fn.out = <<fn.data_hash, ".", "bin">>

\* C13: every record of the parser has a string as its title, the text of
\* <title> when the note has one and "Untitled" when it has none, and no
\* exporter hands a missing title to sanitize_filename.
C13_TitleIsAString ==
    /\ \A k \in DOMAIN notes :
          /\ ~notes[k].title.none
          /\ notes[k].title.s = (IF doc.notes[notes[k].elem].hasTitle
                                 THEN doc.notes[notes[k].elem].title ELSE Untitled)
    /\ err # "TypeError"

\* C19: a resource whose payload base64 does not decode ends no run of the
\* parser or of the exporter of parsed notes: on a well-formed document with
\* string titles and no failing write, every note gets its record and its file.
C19_UndecodableNeverTerminates ==
    (/\ prog \in {"parse", "individual"}
     /\ doc.wf
     /\ env.failNote = 0
     /\ \A k \in DOMAIN doc.notes : ~TitleOf(doc.notes[k]).none
     /\ Terminated) =>
        /\ err # "binascii.Error"
        /\ Len(notes) = Len(doc.notes)
        /\ prog = "individual" =>
              \A k \in DOMAIN doc.notes :
                  NoteFilename(k, TitleOf(doc.notes[k]).s) \in DOMAIN noteFiles

\* a created or updated element that carries a non-empty value
HasValue(elem) == elem # <<>> /\ ~elem[1].none /\ elem[1].s # <<>>

\* C15: the file of a note holds a Created (Modified) line exactly when the
\* note's created (modified) value is present and not empty, in both exporters.
C15_DateLineIffValue ==
    prog \in {"individual", "enhanced"} =>
        \A f \in DOMAIN noteFiles :
            noteFiles[f].kind = "note" =>
                /\ noteFiles[f].created # <<>> <=> HasValue(doc.notes[noteFiles[f].elem].created)
                /\ noteFiles[f].modified # <<>> <=> HasValue(doc.notes[noteFiles[f].elem].updated)

\* the resources of the document for which _extract_resource returns None
SkippedResources ==
    {kr \in (DOMAIN doc.notes) \X (1..MaxRes + 1) :
        /\ kr[2] \in DOMAIN doc.notes[kr[1]].resources
        /\ Skipped(doc.notes[kr[1]].resources[kr[2]])}

\* C16: the summary at the end of a run of an attachment extractor reports a
\* failure count, equal to the number of resources skipped in the run.
C16_FailureCountReported ==
    (prog \in {"attach", "enhanced"} /\ pc = "done") =>
        /\ "failures" \in DOMAIN acc.summary
        /\ acc.summary["failures"] = Cardinality(SkippedResources)

\* the text of a reference: the declared file name, or the fallback
ReferenceText(resource, fallback) ==
    IF resource.original_filename = <<>> THEN <<fallback>> ELSE resource.original_filename

\* the image reference or the paperclip link of an extracted resource
Reference(resource) ==
    IF resource.is_image
    THEN <<"![">> \o ReferenceText(resource, "Image") \o <<"](">>
         \o resource.relative_path \o <<")">>
    ELSE <<"[", "PAPERCLIP", " ">> \o ReferenceText(resource, "Attachment") \o <<"](">>
         \o resource.relative_path \o <<")">>

\* C17: the reference written for a matched placeholder has the declared file
\* name as its text, and Image (for an image) or Attachment (for another
\* type) when the resource declares no file name (here for content and file
\* names without a stray "<" and resources with distinct declared hashes).
C17_FallbackText ==
    (Returned("convert") /\ PlainMarkup(fn) /\ NoStrayLT(fn)) =>
        \A k \in DOMAIN fn.html_content : \A m \in DOMAIN fn.resources :
            (/\ fn.html_content[k] \in EnMediaTags
             /\ HashOfMedia(fn.html_content[k]) # <<>>
             /\ HashOfMedia(fn.html_content[k]) = fn.resources[m].resource_hash)
            => Contains(fn.out, Reference(fn.resources[m]))

\* k written with four digits
FourDigits(k) ==
    <<DigitChar[((k \div 1000) % 10) + 1], DigitChar[((k \div 100) % 10) + 1],
      DigitChar[((k \div 10) % 10) + 1], DigitChar[(k % 10) + 1]>>

\* C18: the exporter of parsed notes writes the k-th note of the document to
\* a file whose name starts with k in four digits and "_"; the k-th entry
\* of README.md and the k-th entry of the manifest, of index k, are about that
\* note, and the manifest has one entry per note, in document order.
C18_SequenceNumbersFollowTheDocument ==
    prog = "individual" =>
        /\ \A k \in DOMAIN acc.index :
              /\ acc.index[k].n = k
              /\ acc.index[k].elem = k
              /\ SubSeq(acc.index[k].filename, 1, 5) = FourDigits(k) \o <<"_">>
              /\ acc.index[k].filename \in DOMAIN noteFiles
              /\ noteFiles[acc.index[k].filename].kind = "note"
              /\ noteFiles[acc.index[k].filename].elem = k
        /\ <<"README.md">> \in DOMAIN noteFiles =>
              noteFiles[<<"README.md">>].entries = acc.index
        /\ pc = "done" =>
              /\ Len(acc.index) = Len(doc.notes)
              /\ Len(noteFiles[<<"metadata.json">>].notes_summary) = Len(doc.notes)
              /\ \A k \in DOMAIN doc.notes :
                    /\ noteFiles[<<"metadata.json">>].notes_summary[k].index = k
                    /\ noteFiles[<<"metadata.json">>].notes_summary[k].elem = k
                    /\ noteFiles[<<"metadata.json">>].notes_summary[k].title
                           = TitleOf(doc.notes[k])

C18_Witness ==
    /\ prog = "individual"
    /\ pc = "done"
    /\ Len(doc.notes) = 2
    /\ doc.notes[1].title # doc.notes[2].title
    /\ Len(noteFiles[<<"metadata.json">>].notes_summary) = 2
    /\ <<"0", "0", "0", "2", "_", "a", ".", "m", "d">> \in DOMAIN noteFiles

\* C20: both conversion routines strip the tags before they decode the
\* entities: every angle bracket written as &lt; or &gt; is in the output as
\* the character, and nothing written between them is removed.
C20_EscapedBracketsSurvive ==
    Returned("text") =>
        /\ Count(fn.out, "<") = Count(fn.html_content, "&lt;")
        /\ Count(fn.out, ">") = Count(fn.html_content, "&gt;")
        /\ Count(fn.out, "x") = Count(fn.html_content, "x")

\* C21: what _html_to_markdown_with_images returns has no run of four or
\* more newlines, no space or tab just before a newline, and no whitespace
\* at either end.
C21_WhitespaceNormalised ==
    (Returned("text") /\ fn.routine = "_html_to_markdown_with_images") =>
        /\ \A k \in 1..(Len(fn.out) - 3) :
              ~(\A m \in k..(k + 3) : fn.out[m] = "\n")
        /\ \A k \in 1..(Len(fn.out) - 1) :
              ~(fn.out[k] \in {" ", "\t"} /\ fn.out[k + 1] = "\n")
        /\ fn.out # <<>> => (fn.out[1] \notin PySpace /\ fn.out[Len(fn.out)] \notin PySpace)

\* C22: export_notes_with_images writes in document order: a step that
\* writes an attachment file writes one of the note in progress, before that
\* note's Markdown file and after the files of all earlier notes; a step that
\* writes a Markdown file writes that of the note in progress and moves to
\* the next note; README.md is written after the file of the last note; no
\* step removes a file, and a step that fails writes nothing, README.md
\* included.
C22_WritesInDocumentOrder ==
    [][prog = "enhanced" =>
        /\ i' >= i
        /\ DOMAIN noteFiles \subseteq DOMAIN noteFiles'
        /\ DOMAIN attFiles \subseteq DOMAIN attFiles'
        /\ \A f \in DOMAIN noteFiles' \ DOMAIN noteFiles :
              IF f = <<"README.md">>
              THEN /\ i = Len(doc.notes)
                   /\ Cardinality({g \in DOMAIN noteFiles : noteFiles[g].kind = "note"})
                          = Len(doc.notes)
              ELSE /\ noteFiles'[f].elem = i + 1
                   /\ i' = i + 1
                   /\ <<"README.md">> \notin DOMAIN noteFiles
                   /\ \A g \in DOMAIN noteFiles : noteFiles[g].elem <= i
        /\ \A f \in DOMAIN attFiles' \ DOMAIN attFiles :
              /\ i < Len(doc.notes)
              /\ i' = i
              /\ attFiles'[f] = doc.notes[i + 1].resources[j + 1].bytes
              /\ <<"README.md">> \notin DOMAIN noteFiles
              /\ \A g \in DOMAIN noteFiles : noteFiles[g].elem <= i
        /\ pc' = "raised" =>
              /\ noteFiles' = noteFiles
              /\ attFiles' = attFiles
              /\ <<"README.md">> \notin DOMAIN noteFiles]_vars

C22_Witness ==
    /\ prog = "enhanced"
    /\ pc = "raised"
    /\ i = 1
    /\ Len(doc.notes) = 2
    /\ attFiles # EmptyMap
    /\ \E f \in DOMAIN noteFiles : noteFiles[f].kind = "note" /\ noteFiles[f].elem = 1
    /\ <<"README.md">> \notin DOMAIN noteFiles

\* the resources extracted from the k-th note of the document
ExtractedOf(k) ==
    Flatten([m \in DOMAIN doc.notes[k].resources |->
                EnhancedNoteExporter_extract_resource(doc.notes[k].resources[m], k)])

\* C23: the placeholders of a note resolve to the resources extracted from
\* that note alone: the Markdown of note k is the conversion of its content
\* with the resources of note k, whatever the notes before it hold, and a
\* note without an extracted resource has no attachment reference.
C23_LookupScopedToNote ==
    prog = "enhanced" =>
        \A f \in DOMAIN noteFiles :
            noteFiles[f].kind = "note" =>
                /\ noteFiles[f].body =
                       _html_to_markdown_with_images(doc.notes[noteFiles[f].elem].content,
                                                     ExtractedOf(noteFiles[f].elem))
                /\ ExtractedOf(noteFiles[f].elem) = <<>> =>
                       /\ "attachments/" \notin Range(noteFiles[f].body)
                       /\ noteFiles[f].attachments = <<>>

C23_Witness ==
    /\ prog = "enhanced"
    /\ Len(doc.notes) = 2
    /\ ExtractedOf(1) # <<>>
    /\ ExtractedOf(2) = <<>>
    /\ \E f \in DOMAIN noteFiles :
          /\ noteFiles[f].kind = "note"
          /\ noteFiles[f].elem = 1
          /\ "attachments/" \in Range(noteFiles[f].body)
    /\ \E f \in DOMAIN noteFiles :
          /\ noteFiles[f].kind = "note"
          /\ noteFiles[f].elem = 2
          /\ Marker \in Range(noteFiles[f].body)

\* <<k, m>> for the m-th resource of note k, when it has a payload to extract
ExtractedResources ==
    {km \in (DOMAIN doc.notes) \X (1..MaxRes + 1) :
        /\ km[2] \in DOMAIN doc.notes[km[1]].resources
        /\ ~Skipped(doc.notes[km[1]].resources[km[2]])}

ContentHashes == {MD5Hex8(doc.notes[km[1]].resources[km[2]].bytes) : km \in ExtractedResources}

\* C25: when extract_attachments_from_enex is done, attachment_map has one
\* entry per distinct content hash of the extracted resources, the number of
\* unique attachments reported is the number of those hashes, and it is at
\* most the total of the attachments index, which counts every extracted
\* resource.
C25_OneEntryPerContentHash ==
    (prog = "attach" /\ pc = "done") =>
        /\ DOMAIN acc.attachment_map = ContentHashes
        /\ \A h \in DOMAIN acc.attachment_map : acc.attachment_map[h].hash = h
        /\ acc.summary.attachments = Cardinality(ContentHashes)
        /\ acc.attachment_index[1].total = Cardinality(ExtractedResources)
        /\ acc.summary.attachments <= acc.attachment_index[1].total

C25_Witness ==
    /\ prog = "attach"
    /\ pc = "done"
    /\ Len(doc.notes) = 2
    /\ acc.summary.attachments = 1
    /\ acc.attachment_index[1].total = 2
    /\ Cardinality(DOMAIN attFiles) = 2

\* the resources of note n that have a payload to extract, in document order
KeptOf(n) == SelectSeq(doc.notes[n].resources, LAMBDA r : ~NoPayload(r))

\* no two resources gone through with different payloads got the same file name
NoNameClash ==
    \A a, b \in Range(SelectSeq(Processed, LAMBDA r : ~NoPayload(r))) :
        StoredName(a) = StoredName(b) => a.bytes = b.bytes

\* C26: at every point of a run each descriptor returned so far names a file
\* of the attachments directory; as long as no two different payloads got the
\* same file name, that file holds the decoded bytes of the descriptor's
\* resource, and as many bytes as the descriptor's size.
C26_DescriptorHasItsFile ==
    prog \in {"attach", "enhanced"} =>
        /\ \A d \in Descriptors : d.filename \in DOMAIN attFiles
        /\ NoNameClash =>
              /\ \A d \in Descriptors : Len(attFiles[d.filename]) = d.size
              /\ Len(KeptOfNote) = Len(resources) =>
                    \A a \in DOMAIN resources :
                        attFiles[resources[a].filename] = KeptOfNote[a].bytes
              /\ \A n \in DOMAIN acc.note_attachments :
                    /\ Len(acc.note_attachments[n].attachments) = Len(KeptOf(n))
                    /\ \A a \in DOMAIN KeptOf(n) :
                          attFiles[acc.note_attachments[n].attachments[a].filename]
                              = KeptOf(n)[a].bytes

C26_Witness ==
    /\ prog = "enhanced"
    /\ NoNameClash
    /\ Len(resources) = 2
    /\ resources[1].filename # resources[2].filename
    /\ resources[1].size = 1
    /\ attFiles[resources[1].filename] = KeptOfNote[1].bytes
    /\ attFiles[resources[2].filename] = KeptOfNote[2].bytes

NoteFileNames == {f \in DOMAIN noteFiles : noteFiles[f].kind = "note"}

\* C29: in a run of an exporter no two notes are written under the same
\* file name, whatever their titles: the file of each note written so far
\* still belongs to that note, there are as many note files as notes
\* written, and as many as notes in the document when the run is done.
C29_OneFilePerNote ==
    prog \in {"individual", "enhanced"} =>
        /\ \A a, b \in DOMAIN acc.index :
              a # b => acc.index[a].filename # acc.index[b].filename
        /\ \A a \in DOMAIN acc.index :
              /\ acc.index[a].filename \in NoteFileNames
              /\ noteFiles[acc.index[a].filename].elem = acc.index[a].elem
        /\ Cardinality(NoteFileNames) = Len(acc.index)
        /\ pc = "done" => Cardinality(NoteFileNames) = Len(doc.notes)

C29_Witness ==
    /\ prog \in {"individual", "enhanced"}
    /\ pc = "done"
    /\ Len(doc.notes) = 2
    /\ doc.notes[1].hasTitle
    /\ doc.notes[1].title = doc.notes[2].title
    /\ doc.notes[2].hasTitle
    /\ Cardinality(NoteFileNames) = 2

\* C30: sanitize_filename gives back what it returned when it is applied to
\* it again, and what it returns is not empty, has no whitespace at either
\* end, no two whitespace characters in a row, and at most 100 characters.
C30_SanitizeIdempotent ==
    Returned("sanitize") =>
        /\ sanitize_filename(fn.safe_title) = fn.safe_title
        /\ fn.safe_title # <<>>
        /\ fn.safe_title[1] \notin PySpace
        /\ fn.safe_title[Len(fn.safe_title)] \notin PySpace
        /\ \A k \in 1..(Len(fn.safe_title) - 1) :
              ~(fn.safe_title[k] \in PySpace /\ fn.safe_title[k + 1] \in PySpace)
        /\ Len(fn.safe_title) <= 100

C30_Witness ==
    /\ Returned("sanitize")
    /\ Len(fn.title) > 100
    /\ fn.title[100] = " "
    /\ Len(fn.safe_title) = 99
    /\ sanitize_filename(fn.safe_title) = fn.safe_title

\* the lines of the note file that hold the marker
MarkerLines(lines) == {k \in DOMAIN lines : Marker \in Range(lines[k])}

\* the number of marker lines up to and including line k
MarkerRank(lines, k) == Cardinality({m \in MarkerLines(lines) : m <= k})

\* line k is a marker line for which an image is left
Repaired(lines, images, k) == k \in MarkerLines(lines) /\ MarkerRank(lines, k) <= Len(images)

\* C24: _smart_embed_images gives the i-th line that holds [Attachment] the
\* i-th image resource of the note, in document order; no image is used
\* twice, no other resource is used, and the marker lines after the last
\* image, like every other line, are left as they are.
C24_GreedyInOrder ==
    Returned("embed") =>
        LET lines == Split(fn.content)
            images == SelectSeq(fn.resources, LAMBDA r : r.is_image)
        IN  fn.out = Join([k \in DOMAIN lines |->
                              IF Repaired(lines, images, k)
                              THEN EmbeddedLine(images[MarkerRank(lines, k)])
                              ELSE lines[k]])

C24_Witness ==
    /\ Returned("embed")
    /\ fn.content = <<Marker, "\n", "x", Marker>>
    /\ Len(fn.resources) = 2
    /\ ~fn.resources[1].is_image
    /\ fn.resources[2].is_image
    /\ fn.out = EmbeddedLine(fn.resources[2]) \o <<"\n", "x", Marker>>

\* the text of a line before its first marker, and after it
BeforeMarker(line) == SubSeq(line, 1, FindFrom(line, 0, {Marker}) - 1)

AfterMarker(line) == SubSeq(line, FindFrom(line, 0, {Marker}) + 1, Len(line))

\* C27: the repair changes the marker alone: the lines without a marker are
\* written as they are, in their order, and a line whose marker is replaced
\* keeps the text before and after that marker.
C27_OnlyTheMarkerChanges ==
    Returned("embed") =>
        LET lines == Split(fn.content)
            images == SelectSeq(fn.resources, LAMBDA r : r.is_image)
        IN  fn.out = Join([k \in DOMAIN lines |->
                              IF Repaired(lines, images, k)
                              THEN BeforeMarker(lines[k])
                                   \o EmbeddedLine(images[MarkerRank(lines, k)])
                                   \o AfterMarker(lines[k])
                              ELSE lines[k]])

\* the image resources of the note, as the ENEX file has them
ImageElements == SelectSeq(fn.res, LAMBDA r : r.mime # <<>> /\ IsImageMime(r.mime[1]))

\* C28: the path written for an image resource is attachments/ followed by
\* the file name under which _extract_resource stored that resource, and no
\* path is written for a resource that the extractor skipped.
C28_PathNamesTheStoredFile ==
    Returned("embed") =>
        \A r \in 1..Min(Cardinality(MarkerLines(Split(fn.content))), Len(ImageElements)) :
            /\ ~NoPayload(ImageElements[r])
            /\ Contains(fn.out, <<"](", "attachments/">> \o StoredName(ImageElements[r])
                                \o <<")">>)

====
